---- MODULE Spec2Model ----
(***************************************************************************)
(* A model of goblet, a caching proxy for the Git smart HTTP protocol v2.  *)
(*                                                                         *)
(* Modelled: the registry of managed repositories (getManagedRepo,         *)
(* openManagedRepository), the managed repository (fetchUpstream,          *)
(* RecoverFromBundle, LastUpdateTime, WriteBundle, hasAnyUpdate,           *)
(* hasAllWants, serveFetchLocal), the protocol v2 command handler          *)
(* (handleV2Command), the request loop of uploadPackHandler, the HTTP       *)
(* server's ServeHTTP and the two error reporters.                         *)
(*                                                                         *)
(* Abstractions.  The upstream repository has one branch, refs/heads/      *)
(* master.  Commit k is the k-th commit pushed to it, upHead is the branch *)
(* tip and parent[k] the commit k was made on (0: none, the push was a     *)
(* force-update to an unrelated history).  A mirror is the pair of its     *)
(* local value of refs/heads/master (0: the ref does not exist) and the    *)
(* set of commits in its object database; a fetch brings a commit with all *)
(* its ancestors and deletes nothing.  HEAD of a bare mirror is a symbolic *)
(* ref to refs/heads/master, so it resolves exactly when that ref exists.  *)
(* The local disk, go-git and the local git binary do not fail; the        *)
(* upstream, the token source and the client's context do.                 *)
(***************************************************************************)
EXTENDS Integers, Sequences, FiniteSets, TLC

\* ---------------------------------------------------------------- bounds
MaxCommit == 2      \* commits the upstream ever has
MaxTime == 2        \* distinct readings of the clock
MaxCmds == 2        \* commands in one request body
MaxRounds == 2      \* requests that one client posts, one after the other
MaxCycles == 2      \* snapshot cycles of the backup process
MaxPath == 3        \* parts of the path of a URL

\* ------------------------------------------------------------- processes
\* Each inbound HTTP request runs on a goroutine of its own; a client stands
\* for one request.  Bk is the goroutine of the backup process.
Clients == {"c1", "c2"}
Bk == "bk"
Openers == Clients \cup {Bk}
None == "none"

\* Local cache paths: ParentPath is a directory on the way to ChildPath.
ParentPath == "host/a"
ChildPath == "host/a/b"
Paths == {ParentPath, ChildPath}

\* The goroutines that run fetchUpstream: one per command of a request.
Tasks == Clients \X (1..MaxCmds)

VARIABLES
    upHead,        \* upstream: tip of refs/heads/master (commits 1..upHead exist)
    parent,        \* commit -> the commit it was made on, or 0
    now,           \* the last reading of time.Now()
    managedRepos,  \* the registry: path -> creator of the published handle, or None
    mu,            \* the RWMutex of the published handle of each path
    dirExists,     \* path -> whether the directory exists on disk
    initCount,     \* path -> how many times git init --bare ... ran on it
    mirror,        \* path -> [master, objs]: the bare mirror on disk
    lastUpdate,    \* path -> lastUpdate field of the published handle
    offered,       \* client -> the request bodies it may post (the workload)
    proc,          \* request or backup goroutine -> its state
    task,          \* task -> the state of its fetchUpstream goroutine
    bundle,        \* path -> the bundles of the repository in the bucket
    manifests,     \* the manifests of this manifest name in the bucket
    faults         \* the kinds of failure that the bucket and the hooks may show

vars == <<upHead, parent, now, managedRepos, mu, dirExists, initCount, mirror,
          lastUpdate, offered, proc, task, bundle, manifests, faults>>

Min(a, b) == IF a <= b THEN a ELSE b

\* ------------------------------------------------------------ sync.RWMutex
\* The holders of a mutex are goroutines: the goroutine of opener o, or the
\* goroutine of a fetchUpstream, which is a task.
Goroutine(o) == <<o, 0>>
Nobody == Goroutine(None)

Unlocked == [w |-> Nobody, r |-> {}]

\* A Lock() that waits for the readers only.
CanLockReadersGone(p) == mu[p].r = {}

\* Lock() returns: no writer and no reader holds the mutex.
CanLock(p) == mu[p].w = Nobody /\ mu[p].r = {}

\* An RLock() that never waits.
CanRLockAlways(p) == TRUE

\* RLock() returns: no writer holds the mutex.
CanRLock(p) == mu[p].w = Nobody

\* ------------------------------------------------------------- the mirror
EmptyMirror == [master |-> 0, objs |-> {}]

\* The commits reachable from commit h.
RECURSIVE Anc(_)
Anc(h) == IF h = 0 THEN {} ELSE {h} \cup Anc(parent[h])

\* g.Reference("HEAD", true) succeeds: HEAD -> refs/heads/master resolves.
HasHEAD(p) == mirror[p].master # 0

\* mkdir -p: the directory and every directory on the way to it.
MkdirAll(p) == IF p = ChildPath THEN {ParentPath, ChildPath} ELSE {p}

\* --------------------------------------------------------------- commands
LsRefs == [name |-> "ls-refs", hash |-> 0, ref |-> FALSE]

\* A fetch command: at most one "want <hash>" line (hash 0: none) and at most
\* one "want-ref refs/heads/master" line.
FetchCmds == {[name |-> "fetch", hash |-> h, ref |-> FALSE] : h \in 1..MaxCommit}
             \cup {[name |-> "fetch", hash |-> 0, ref |-> TRUE]}

Commands == {LsRefs} \cup FetchCmds

\* The text after "want " in an argument line is written as a number: k >= 1
\* is the hex name of commit k, NoHex a text that is no hex name of an object
\* (nothing at all, or letters that are no hex digits).
NoHex == -1

\* plumbing.ZeroHash, which names no object.
ZeroHash == -2

\* A fetch command whose want line has no hash that can be parsed.
MalformedFetch == [name |-> "fetch", hash |-> NoHex, ref |-> FALSE]

\* The bodies a client posts to /git-upload-pack: no command, one command, or
\* ls-refs followed by a fetch.
Requests ==
    {<<>>} \cup {<<c>> : c \in Commands} \cup {<<LsRefs, c>> : c \in FetchCmds}

\* ------------------------------------------------------------- goroutines
\* What a request carries besides its body: the outcome of the configured
\* RequestAuthorizer on it ("nil": authorized), its Git-Protocol header, the
\* suffix of its URL path, the host of its URL and its Content-Encoding
\* ("bad": gzip, but the body is no gzip stream).
ValidHTTP ==
    [auth |-> "nil", proto |-> "version=2", endpoint |-> "/git-upload-pack",
     host |-> "source.developers.google.com", gzip |-> "none"]

HTTPRequests ==
    [auth : {"nil", "Unauthenticated", "Unavailable"},
     proto : {"version=2", ""},
     endpoint : {"/info/refs", "/git-receive-pack", "/git-upload-pack", "/"},
     host : {"source.developers.google.com", "example.com"},
     gzip : {"none", "ok", "bad"}]

\* A URL: its scheme, its host and its path.  The path is the sequence of
\* the parts whose concatenation it is: the authorization prefix "/a", the
\* name of a directory or repository, the suffix of a Git endpoint, or the
\* suffix ".git".
PathParts == {"/a", "/repo", "/info/refs", "/git-upload-pack", "/git-receive-pack", ".git"}
GoogleSourceHosts == {"x.googlesource.com"}
RepoURL == [scheme |-> "http", host |-> "source.developers.google.com", path |-> <<"/repo">>]

\* The goroutine of a request (or of the backup process) before it starts;
\* the response has no header, no status and no body yet.  server names the
\* server process that the goroutine belongs to.
NewProc(p) ==
    [pc |-> "new", server |-> "A", path |-> p, used |-> 0, cmds |-> <<>>, cur |-> LsRefs,
     handle |-> None, adv |-> 0, ret |-> "none",
     err |-> "nil", served |-> "none", fetchDone |-> "empty",
     stage |-> "recover", todo |-> {}, tmp |-> 0, urls |-> {}, at |-> 0, log |-> {},
     http |-> ValidHTTP, url |-> RepoURL, round |-> 1, lsCalls |-> 0, resp |-> <<>>,
     reports |-> 0,
     code |-> "none", status |-> 0, ctype |-> "", wwwAuth |-> <<>>, out |-> <<>>]

IdleTask ==
    [pc |-> "idle", kind |-> "bg", split |-> FALSE, start |-> 0,
     err |-> "nil"]

NoBundle == [ts |-> 0, head |-> 0]

\* The path a task works on: its owner's.
TaskPath(t) == proc[t[1]].path

\* ------------------------------------------------------------------ errors
\* An error value that carries a gRPC status is named by the code of the
\* status.  The other error values are plain Go errors: "context canceled" is
\* ctx.Err() of a cancelled context.
StatusErrors ==
    {"InvalidArgument", "Unauthenticated", "Unimplemented", "Internal", "Unavailable"}

\* "code := codes.Internal; if st, ok := status.FromError(err); ok { code =
\* st.Code() }": FromError(nil) is (nil, true) and the code of a nil status is
\* OK; an error without a status gives ok = false and leaves Internal.
StatusCode(err) ==
    IF err = "nil" THEN "OK"
    ELSE IF err \in StatusErrors THEN err ELSE "Internal"

\* runtime.HTTPStatusFromCode.
HTTPStatusFromCode(code) ==
    CASE code = "OK" -> 200
      [] code = "Canceled" -> 408
      [] code = "InvalidArgument" -> 400
      [] code = "Unauthenticated" -> 401
      [] code = "Unimplemented" -> 501
      [] code = "Unavailable" -> 503
      [] OTHER -> 500

\* ------------------------------------------------------------ the response
\* What is written to the response body: pkt-lines (a ref of an ls-refs
\* response, a flush, the packfile that upload-pack sends for a commit, an
\* error packet, a line of the service advertisement) or plain text.
Pkt(kind, hash, msg) == [kind |-> kind, hash |-> hash, msg |-> msg]

\* gitprotocolio.ErrorPacket(err.Error()).
ErrorPacket(err) == Pkt("ERR", 0, err)

\* monitoringWriter.Write: the first write makes the status 200 OK unless a
\* status was written before.
Write(r, pkts) ==
    [r EXCEPT !.out = @ \o pkts,
              !.status = IF @ = 0 /\ pkts # <<>> THEN 200 ELSE @]

\* A reporter that is called for errors only.
ReportFailure(r, e) ==
    IF e = "nil" THEN r
    ELSE [Write(r, <<ErrorPacket(e)>>) EXCEPT !.code = StatusCode(e), !.reports = @ + 1]

\* gitProtocolHTTPErrorReporter.reportError: the code that is recorded with
\* the command's metrics, and writeError when err is not nil.  reports is the
\* number of calls of the reporter in the request.
ReportError(r, e) ==
    [Write(r, IF e = "nil" THEN <<>> ELSE <<ErrorPacket(e)>>) EXCEPT
        !.code = StatusCode(e), !.reports = @ + 1]

\* httpErrorReporter.reportError: the code that is recorded, the two
\* WWW-Authenticate headers for Unauthenticated, and http.Error, which sets
\* the Content-Type to text/plain, writes the status and the message as text.
HTTPReportError(r, e) ==
    [r EXCEPT !.code = StatusCode(e),
              !.wwwAuth = IF StatusCode(e) = "Unauthenticated"
                          THEN @ \o <<"Bearer", "Basic realm=goblet">> ELSE @,
              !.ctype = "text/plain; charset=utf-8",
              !.status = HTTPStatusFromCode(StatusCode(e)),
              !.out = Append(@, Pkt("text", 0, e))]

\* infoRefsHandler: the service advertisement.
InfoRefsAdvertisement ==
    <<Pkt("version", 0, "2"), Pkt("cap", 0, "ls-refs"),
      Pkt("cap", 0, "fetch=filter shallow"), Pkt("cap", 0, "server-option"),
      Pkt("flush", 0, "")>>

\* ------------------------------------------------------- uploadPackHandler
\* The handler returns and the request's goroutine ends: net/http sends the
\* status 200 OK when none was written.  What is kept is the response, and
\* what the last command reported and returned.
Finished(r) ==
    [r EXCEPT !.pc = "done", !.cmds = <<>>, !.cur = LsRefs, !.used = 0, !.adv = 0,
              !.served = "none", !.fetchDone = "empty", !.resp = <<>>,
              !.status = IF @ = 0 THEN 200 ELSE @]

\* The loop over the parsed commands: start the next one, or finish the
\* request when none is left.
Proceed(r) ==
    IF r.cmds = <<>>
    THEN Finished(r)
    ELSE [r EXCEPT !.pc = IF Head(r.cmds).name = "ls-refs" THEN "lsUp" ELSE "fetchCheck",
                   !.cur = Head(r.cmds), !.cmds = Tail(r.cmds), !.used = @ + 1,
                   !.ret = "none", !.err = "nil", !.served = "none",
                   !.fetchDone = "empty", !.resp = <<>>]

\* A handler that goes on to the next command after a failure.
ReturnFalseAndGoOn(r, e) == Proceed(ReportError([r EXCEPT !.ret = "fail", !.err = e], e))

\* handleV2Command returned true after reporting a nil error.
ReturnTrue(r) == Proceed(ReportError([r EXCEPT !.ret = "ok", !.err = "nil"], "nil"))

\* handleV2Command reported e and returned false: the request ends.
ReturnFalse(r, e) == Finished(ReportError([r EXCEPT !.ret = "fail", !.err = e], e))

\* A handler of the HTTP server reported e through the httpErrorReporter and
\* returned.
Rejected(r, e) == Finished(HTTPReportError([r EXCEPT !.ret = "fail", !.err = e], e))

\* A parser that drops the commands it does not know.
ParseKnownCommands(req) ==
    [err |-> "nil", commands |-> SelectSeq(req, LAMBDA cmd : cmd.name \in {"ls-refs", "fetch"})]

\* A parser that takes a body without commands for a malformed request.
ParseSomeCommands(req) ==
    IF req = <<>> \/ \E i \in 1..Len(req) : req[i].name \notin {"ls-refs", "fetch"}
    THEN [err |-> "InvalidArgument", commands |-> <<>>]
    ELSE [err |-> "nil", commands |-> req]

\* parseAllCommands: the commands of the body, or InvalidArgument when one of
\* them is neither ls-refs nor fetch or the body is no sequence of pkt-lines.
ParseAllCommands(req) ==
    IF \E i \in 1..Len(req) : req[i].name \notin {"ls-refs", "fetch"}
    THEN [err |-> "InvalidArgument", commands |-> <<>>]
    ELSE [err |-> "nil", commands |-> req]

\* config.URLCanonializer, the hook that the server installs: an error for a
\* host that is not a Google source host.
\* The result carries the canonical URL when err is "nil".
CanonicalizeURL(u) ==
    LET EndsWith(p, parts) == Len(p) > 0 /\ p[Len(p)] \in parts
        TrimLast(p) == SubSeq(p, 1, Len(p) - 1)
        \* strings.HasPrefix(ret.Path, "/a/"): "/a" and then a part that
        \* starts with a slash
        forced == Len(u.path) >= 2 /\ u.path[1] = "/a" /\ u.path[2] # ".git"
        p1 == IF u.host \in GoogleSourceHosts /\ forced THEN Tail(u.path) ELSE u.path
        p2 == IF EndsWith(p1, {"/info/refs", "/git-upload-pack", "/git-receive-pack"})
              THEN TrimLast(p1) ELSE p1
        p3 == IF EndsWith(p2, {".git"}) THEN TrimLast(p2) ELSE p2
    IN IF u.host \in GoogleSourceHosts \/ u.host = "source.developers.google.com"
       THEN [err |-> "nil", url |-> [scheme |-> "https", host |-> u.host, path |-> p3]]
       ELSE [err |-> "InvalidArgument", url |-> u]

\* r.URL of a request: the path ends with the endpoint.
RequestURL(r) ==
    [scheme |-> "http", host |-> r.http.host, path |-> <<"/repo", r.http.endpoint>>]

\* uploadPackHandler up to the call of getManagedRepo: the Content-Type of the
\* result, the gzip reader, parseAllCommands, and the canonicalization of the
\* URL at the start of openManagedRepository.
UploadPackHandler(r, req) ==
    LET r1 == [r EXCEPT !.ctype = "application/x-git-upload-pack-result"]
        parsed == ParseAllCommands(req)
    IN IF r.http.gzip = "bad" THEN Rejected(r1, "InvalidArgument")
       ELSE IF parsed.err # "nil" THEN Rejected(r1, parsed.err)
       ELSE IF CanonicalizeURL(RequestURL(r)).err # "nil"
            THEN Rejected(r1, CanonicalizeURL(RequestURL(r)).err)
       ELSE [r1 EXCEPT !.pc = "getRepo", !.cmds = parsed.commands]

\* ServeHTTP: the authorizer, the check of the protocol version, and the
\* handler of the endpoint.
ServeHTTP(r, req) ==
    IF r.http.auth # "nil" THEN Rejected(r, r.http.auth)
    ELSE IF r.http.proto # "version=2" THEN Rejected(r, "InvalidArgument")
    ELSE CASE r.http.endpoint = "/info/refs" ->
                Finished(Write([r EXCEPT !.ctype = "application/x-git-upload-pack-advertisement"],
                               InfoRefsAdvertisement))
           [] r.http.endpoint = "/git-receive-pack" -> Rejected(r, "Unimplemented")
           [] r.http.endpoint = "/git-upload-pack" -> UploadPackHandler(r, req)
           [] OTHER -> Finished(r)

\* A client posts a request and the server's ServeHTTP runs on it.
ReqStart(c) ==
    /\ proc[c].pc = "new"
    /\ \E req \in offered[c] :
        /\ Len(req) <= MaxCmds
        /\ proc' = [proc EXCEPT ![c] = ServeHTTP(@, req)]
    /\ UNCHANGED <<upHead, parent, now, managedRepos, mu, dirExists, initCount,
                   mirror, lastUpdate, offered, task, bundle, manifests, faults>>

\* The client has its answer, a success, and posts the request again.
ReqRepeat(c) ==
    /\ proc[c].pc = "done"
    /\ proc[c].ret = "ok"
    /\ proc[c].round < MaxRounds
    /\ proc' = [proc EXCEPT ![c] = [NewProc(@.path) EXCEPT !.http = proc[c].http,
                                                           !.round = proc[c].round + 1]]
    /\ UNCHANGED <<upHead, parent, now, managedRepos, mu, dirExists, initCount,
                   mirror, lastUpdate, offered, task, bundle, manifests, faults>>

\* ----------------------------------------------------------------- registry
\* A Store in place of LoadOrStore.
StoreAlways(p, o) == o

\* managedRepos.LoadOrStore(localDiskPath, newM): the handle the map holds
\* afterwards, newM (named by its creator o) when the path was absent.
LoadOrStore(p, o) == IF managedRepos[p] = None THEN o ELSE managedRepos[p]

\* getManagedRepo up to LoadOrStore: newM is locked by its creator, then
\* published unless the map already holds a handle for the path.
GetManagedRepo(o) ==
    /\ proc[o].pc = "getRepo"
    /\ LET p == proc[o].path
           h == LoadOrStore(p, o)
       IN /\ managedRepos' = [managedRepos EXCEPT ![p] = h]
          /\ IF managedRepos[p] = None
             THEN /\ mu' = [mu EXCEPT ![p] = [w |-> Goroutine(o), r |-> {}]]
                  /\ lastUpdate' = [lastUpdate EXCEPT ![p] = 0]
                  /\ proc' = [proc EXCEPT ![o] = [@ EXCEPT !.pc = "unlockNew", !.handle = h]]
             ELSE /\ proc' = [proc EXCEPT ![o] = [@ EXCEPT !.pc = "lockRepo", !.handle = h]]
                  /\ UNCHANGED <<mu, lastUpdate>>
    /\ UNCHANGED <<upHead, parent, now, dirExists, initCount, mirror, offered,
                   task, bundle, manifests, faults>>

\* A getManagedRepo that returns the handle it has published without the
\* Unlock of the candidate's lock.
GetManagedRepoLocked(o) ==
    /\ proc[o].pc = "unlockNew"
    /\ proc' = [proc EXCEPT ![o] = [@ EXCEPT !.pc = "lockRepo"]]
    /\ UNCHANGED <<upHead, parent, now, managedRepos, mu, dirExists, initCount,
                   mirror, lastUpdate, offered, task, bundle, manifests, faults>>

\* getManagedRepo, "if !loaded { ret.mu.Unlock() }".
GetManagedRepoUnlock(o) ==
    /\ proc[o].pc = "unlockNew"
    /\ mu' = [mu EXCEPT ![proc[o].path] = [@ EXCEPT !.w = Nobody]]
    /\ proc' = [proc EXCEPT ![o] = [@ EXCEPT !.pc = "lockRepo"]]
    /\ UNCHANGED <<upHead, parent, now, managedRepos, dirExists, initCount,
                   mirror, lastUpdate, offered, task, bundle, manifests, faults>>

\* openManagedRepository, m.mu.Lock().
OpenLock(o) ==
    /\ proc[o].pc = "lockRepo"
    /\ CanLock(proc[o].path)
    /\ mu' = [mu EXCEPT ![proc[o].path] = [@ EXCEPT !.w = Goroutine(o)]]
    /\ proc' = [proc EXCEPT ![o] = [@ EXCEPT !.pc = "initRepo"]]
    /\ UNCHANGED <<upHead, parent, now, managedRepos, dirExists, initCount,
                   mirror, lastUpdate, offered, task, bundle, manifests, faults>>

\* os.Stat(localDiskPath) fails with IsNotExist.
NeedsInit(p) == ~dirExists[p]

\* openManagedRepository under the lock: when the directory does not exist,
\* MkdirAll and git init --bare, config ..., remote add; then the deferred
\* Unlock and the return of the handle.
OpenInit(o) ==
    /\ proc[o].pc = "initRepo"
    /\ LET p == proc[o].path IN
        /\ IF NeedsInit(p)
           THEN /\ dirExists' = [q \in Paths |-> dirExists[q] \/ q \in MkdirAll(p)]
                /\ initCount' = [initCount EXCEPT ![p] = @ + 1]
                /\ mirror' = [mirror EXCEPT ![p] = EmptyMirror]
           ELSE UNCHANGED <<dirExists, initCount, mirror>>
        /\ mu' = [mu EXCEPT ![p] = [@ EXCEPT !.w = Nobody]]
    /\ proc' = [proc EXCEPT ![o] = IF o = Bk THEN [@ EXCEPT !.pc = "recoverLock"]
                                   ELSE Proceed(@)]
    /\ UNCHANGED <<upHead, parent, now, managedRepos, lastUpdate, offered, task,
                   bundle, manifests, faults>>

\* ------------------------------------------------------ managedRepository
\* A hasAnyUpdate that always sees an update.
HasAnyUpdateAlways(p, h) == TRUE

\* A hasAnyUpdate that compares the local ref with the upstream's also when
\* the upstream has not advertised it.
HasAnyDifference(p, h) == mirror[p].master # h

\* hasAnyUpdate(refs), refs being the upstream's advertisement of master at
\* commit h, or no ref at all (h = 0): an advertised ref does not exist
\* locally, or resolves to another hash.
HasAnyUpdate(p, h) == h # 0 /\ (mirror[p].master = 0 \/ mirror[p].master # h)

\* A check of the wanted refs that forgets the wanted hashes.
HasWantedRefs(p, cmd) == cmd.ref => mirror[p].master # 0

\* hasAllWants(hashes, refs): every wanted object is in the object database
\* and every wanted ref resolves.
HasAllWants(p, cmd) ==
    /\ cmd.hash # 0 => cmd.hash \in mirror[p].objs
    /\ cmd.ref => mirror[p].master # 0

\* A fetchUpstream that is started only when none is in flight.
SpawnCoalesced(c, kind) ==
    IF \E t \in Tasks : task[t].pc \notin {"idle", "done"}
    THEN task
    ELSE [task EXCEPT ![<<c, proc[c].used>>] = [IdleTask EXCEPT !.pc = "open", !.kind = kind]]

\* "go repo.fetchUpstream()": the goroutine of the client's current command.
Spawn(c, kind) == [task EXCEPT ![<<c, proc[c].used>>] = [IdleTask EXCEPT !.pc = "open", !.kind = kind]]

\* -------------------------------------------------- handleV2Command, ls-refs
\* The chunks of the upstream's answer to ls-refs when its branch is at
\* commit h: the line of the ref, then the flush packet.
LsRefsResponse(h) == <<Pkt("ref", h, "refs/heads/master"), Pkt("flush", 0, "")>>

\* parseLsRefsResponse: the hash of the ref in the chunks that have a
\* Response (0: there is none); the flush packet has none and is skipped.
ParseLsRefsResponse(chunks) ==
    LET refs == {i \in 1..Len(chunks) : chunks[i].kind = "ref"}
    IN IF refs = {} THEN 0 ELSE chunks[CHOOSE i \in refs : TRUE].hash

\* An ls-refs that is answered from the mirror.
LsRefsLocal(c) ==
    /\ proc[c].pc = "lsUp"
    /\ proc' = [proc EXCEPT ![c] =
                    [@ EXCEPT !.pc = "lsWrite", !.adv = mirror[proc[c].path].master,
                              !.resp = LsRefsResponse(mirror[proc[c].path].master)]]
    /\ UNCHANGED <<upHead, parent, now, managedRepos, mu, dirExists, initCount,
                   mirror, lastUpdate, offered, task, bundle, manifests, faults>>

\* An ls-refs command with the argument "ref-prefix refs/tags/".
LsRefsTags == [name |-> "ls-refs", hash |-> 0, ref |-> FALSE, prefix |-> "refs/tags/"]

\* The upstream's answer to the ls-refs command cmd when its branch is at
\* commit h: the command is forwarded with its arguments, and the upstream
\* has no ref under refs/tags/.
UpstreamLsRefs(cmd, h) ==
    IF "prefix" \in DOMAIN cmd THEN <<Pkt("flush", 0, "")>> ELSE LsRefsResponse(h)

\* repo.lsRefsUpstream(command), one POST to the upstream: the call fails and
\* the handler reports the error and returns false, or the upstream answers
\* with its refs; then parseLsRefsResponse, repo.hasAnyUpdate(refs) and, on an
\* update, "go repo.fetchUpstream()".
LsRefsUpstream(c) ==
    /\ proc[c].pc = "lsUp"
    /\ \E ok \in BOOLEAN :
        LET called == [proc[c] EXCEPT !.lsCalls = @ + 1]
            resp == UpstreamLsRefs(proc[c].cur, upHead)
            refs == ParseLsRefsResponse(resp)
        IN IF ok
           THEN /\ proc' = [proc EXCEPT ![c] = [called EXCEPT !.pc = "lsWrite", !.adv = refs,
                                                              !.resp = resp]]
                /\ task' = IF HasAnyUpdate(proc[c].path, refs) THEN Spawn(c, "bg") ELSE task
           ELSE /\ proc' = [proc EXCEPT ![c] = ReturnFalse(called, "Internal")]
                /\ UNCHANGED task
    /\ UNCHANGED <<upHead, parent, now, managedRepos, mu, dirExists, initCount,
                   mirror, lastUpdate, offered, bundle, manifests, faults>>

\* writeResp(w, chunks): writePacket for every chunk, in order.
WriteResp(r, chunks) == Write(r, chunks)

\* writeResp(w, resp), reportError(nil), return true.
LsRefsWrite(c) ==
    /\ proc[c].pc = "lsWrite"
    /\ proc' = [proc EXCEPT ![c] = ReturnTrue(WriteResp(@, @.resp))]
    /\ UNCHANGED <<upHead, parent, now, managedRepos, mu, dirExists, initCount,
                   mirror, lastUpdate, offered, task, bundle, manifests, faults>>

\* ---------------------------------------------------- handleV2Command, fetch
\* strings.Split(s, " ") of the want line of a fetch command: the keyword and
\* what follows the blank, which may be the empty string.
WantFields(cmd) == <<"want", cmd.hash>>

\* plumbing.NewHash(s): the hash that the hex digits of s spell; the decoding
\* error is dropped, and a text without hex digits gives the zero hash.
NewHash(x) == IF x = NoHex THEN ZeroHash ELSE x

\* parseFetchWants: the wanted hashes and refs of the command's argument
\* lines, or InvalidArgument for a want line of fewer than two fields.
ParseFetchWants(cmd) ==
    [err |-> IF cmd.hash # 0 /\ Len(WantFields(cmd)) < 2 THEN "InvalidArgument" ELSE "nil",
     wants |-> [cmd EXCEPT !.hash = IF @ = 0 THEN 0 ELSE NewHash(@)]]

\* parseFetchWants and the first repo.hasAllWants: serve locally, or start a
\* fetchUpstream goroutine with its fetchDone channel and enter the wait loop.
FetchCheck(c) ==
    /\ proc[c].pc = "fetchCheck"
    /\ LET parsed == ParseFetchWants(proc[c].cur) IN
       IF parsed.err # "nil"
       THEN /\ proc' = [proc EXCEPT ![c] = ReturnFalse(@, parsed.err)]
            /\ UNCHANGED task
       ELSE IF HasAllWants(proc[c].path, parsed.wants)
       THEN /\ proc' = [proc EXCEPT ![c] = [@ EXCEPT !.pc = "serve"]]
            /\ UNCHANGED task
       ELSE /\ proc' = [proc EXCEPT ![c] = [@ EXCEPT !.pc = "wait", !.fetchDone = "empty"]]
            /\ task' = Spawn(c, "fg")
    /\ UNCHANGED <<upHead, parent, now, managedRepos, mu, dirExists, initCount,
                   mirror, lastUpdate, offered, bundle, manifests, faults>>

\* A cancellation that also ends the fetchUpstream of the command.
WaitCancelledWithFetch(c) ==
    /\ proc[c].pc = "wait"
    /\ proc' = [proc EXCEPT ![c] = ReturnFalse(@, "context canceled")]
    /\ task' = [task EXCEPT ![<<c, proc[c].used>>] =
                    IF @.pc \in {"open", "lock"}
                    THEN [IdleTask EXCEPT !.pc = "done", !.err = "context canceled"]
                    ELSE @]
    /\ UNCHANGED <<upHead, parent, now, managedRepos, mu, dirExists, initCount,
                   mirror, lastUpdate, offered, bundle, manifests, faults>>

\* select, case <-ctx.Done(): the client has gone away and the request's
\* context is cancelled; report ctx.Err() and return false.  The handler
\* reads the context nowhere else.
WaitCancelled(c) ==
    /\ proc[c].pc = "wait"
    /\ proc' = [proc EXCEPT ![c] = ReturnFalse(@, "context canceled")]
    /\ UNCHANGED <<upHead, parent, now, managedRepos, mu, dirExists, initCount,
                   mirror, lastUpdate, offered, task, bundle, manifests, faults>>

\* select, case err := <-fetchDone: leave the loop when the wants are there,
\* otherwise report the fetch's err (which may be nil) and return false.
WaitFetchDone(c) ==
    /\ proc[c].pc = "wait"
    /\ proc[c].fetchDone # "empty"
    /\ proc' = [proc EXCEPT ![c] =
                    IF HasAllWants(proc[c].path, ParseFetchWants(proc[c].cur).wants)
                    THEN [@ EXCEPT !.pc = "serve", !.fetchDone = "empty"]
                    ELSE ReturnFalse(@, proc[c].fetchDone)]
    /\ UNCHANGED <<upHead, parent, now, managedRepos, mu, dirExists, initCount,
                   mirror, lastUpdate, offered, task, bundle, manifests, faults>>

\* A timer case that leaves the loop only when no fetchUpstream holds the
\* lock of the repository.
WaitTickUnlocked(c) ==
    /\ proc[c].pc = "wait"
    /\ proc' = [proc EXCEPT ![c] =
                    IF /\ HasAllWants(proc[c].path, ParseFetchWants(proc[c].cur).wants)
                       /\ mu[proc[c].path].w = Nobody
                    THEN [@ EXCEPT !.pc = "serve", !.fetchDone = "empty"]
                    ELSE @]
    /\ UNCHANGED <<upHead, parent, now, managedRepos, mu, dirExists, initCount,
                   mirror, lastUpdate, offered, task, bundle, manifests, faults>>

\* A timer case that starts fetchUpstream again when the wants are still
\* missing.
WaitTickRefetch(c) ==
    /\ proc[c].pc = "wait"
    /\ IF HasAllWants(proc[c].path, ParseFetchWants(proc[c].cur).wants)
       THEN /\ proc' = [proc EXCEPT ![c] = [@ EXCEPT !.pc = "serve", !.fetchDone = "empty"]]
            /\ UNCHANGED task
       ELSE /\ task[<<c, proc[c].used>>].pc = "done"
            /\ task' = Spawn(c, "fg")
            /\ UNCHANGED proc
    /\ UNCHANGED <<upHead, parent, now, managedRepos, mu, dirExists, initCount,
                   mirror, lastUpdate, offered, bundle, manifests, faults>>

\* select, case <-timer.C: leave the loop when the wants are there, otherwise
\* reset the timer and wait on.
WaitTick(c) ==
    /\ proc[c].pc = "wait"
    /\ proc' = [proc EXCEPT ![c] = IF HasAllWants(proc[c].path, ParseFetchWants(proc[c].cur).wants)
                                   THEN [@ EXCEPT !.pc = "serve", !.fetchDone = "empty"]
                                   ELSE @]
    /\ UNCHANGED <<upHead, parent, now, managedRepos, mu, dirExists, initCount,
                   mirror, lastUpdate, offered, task, bundle, manifests, faults>>

\* git upload-pack finds every wanted object and every wanted ref in the
\* mirror.
UploadPackFinds(p, cmd) ==
    /\ cmd.hash # 0 => cmd.hash \in mirror[p].objs
    /\ cmd.ref => mirror[p].master # 0

\* The commit whose packfile upload-pack sends: the wanted hash, or the commit
\* the wanted ref resolves to.
Packed(p, cmd) == IF cmd.hash # 0 THEN cmd.hash ELSE mirror[p].master

\* repo.serveFetchLocal starts git upload-pack on the mirror as it is now.
ServeBegin(c) ==
    /\ proc[c].pc = "serve"
    /\ proc' = [proc EXCEPT ![c] =
            IF UploadPackFinds(proc[c].path, proc[c].cur)
            THEN [Write(@, <<Pkt("pack", Packed(proc[c].path, proc[c].cur), "")>>) EXCEPT
                     !.pc = "serving", !.served = "complete"]
            ELSE [@ EXCEPT !.pc = "serving", !.served = "incomplete"]]
    /\ UNCHANGED <<upHead, parent, now, managedRepos, mu, dirExists, initCount,
                   mirror, lastUpdate, offered, task, bundle, manifests, faults>>

\* git upload-pack exits: with an error when it did not find a want, which is
\* reported before the return of false; otherwise reportError(nil), return true.
ServeEnd(c) ==
    /\ proc[c].pc = "serving"
    /\ proc' = [proc EXCEPT ![c] = IF proc[c].served = "complete"
                                   THEN ReturnTrue(@)
                                   ELSE ReturnFalse(@, "Internal")]
    /\ UNCHANGED <<upHead, parent, now, managedRepos, mu, dirExists, initCount,
                   mirror, lastUpdate, offered, task, bundle, manifests, faults>>

\* ------------------------------------------------------------ fetchUpstream
\* git.PlainOpen, the look-up of HEAD that decides splitGitFetch, and
\* "startTime := time.Now()": all before the lock is taken.  Time passes
\* between two readings of the clock, until the model's last instant.
FetchOpen(t) ==
    /\ task[t].pc = "open"
    /\ now' = Min(now + 1, MaxTime)
    /\ task' = [task EXCEPT ![t] = [@ EXCEPT !.pc = "lock", !.start = now,
                                             !.split = ~HasHEAD(TaskPath(t))]]
    /\ UNCHANGED <<upHead, parent, managedRepos, mu, dirExists, initCount,
                   mirror, lastUpdate, offered, proc, bundle, manifests, faults>>

\* r.mu.Lock().
FetchLock(t) ==
    /\ task[t].pc = "lock"
    /\ CanLock(TaskPath(t))
    /\ mu' = [mu EXCEPT ![TaskPath(t)] = [@ EXCEPT !.w = t]]
    /\ task' = [task EXCEPT ![t] = [@ EXCEPT !.pc = IF task[t].split THEN "p1" ELSE "p2"]]
    /\ UNCHANGED <<upHead, parent, now, managedRepos, dirExists, initCount,
                   mirror, lastUpdate, offered, proc, bundle, manifests, faults>>

\* A fetch that moves the branch but leaves its objects behind.
FetchedRefOnly(m) == [master |-> upHead, objs |-> m.objs]

\* A fetch that drops the objects the upstream's branch no longer reaches.
FetchedPruned(m) == [master |-> upHead, objs |-> Anc(upHead)]

\* What a successful "git fetch -f origin ..." leaves in the mirror: the
\* objects of the upstream's branch, and the branch forced to its tip.
Fetched(m) == [master |-> upHead, objs |-> m.objs \cup Anc(upHead)]

\* One phase of the fetch: r.config.TokenSource.Token() and runGit(fetch).
\* Phase p1 is the fetch of refs/heads/* and refs/changes/*, phase p2 the
\* fetch of the whole mirror.  The phase fails when the token source fails
\* or git does: err is set, the mirror stays as it was and no further phase
\* runs.
GitFetch(t) ==
    /\ task[t].pc \in {"p1", "p2"}
    /\ \E ok \in BOOLEAN :
        /\ task' = [task EXCEPT ![t] =
              IF ok THEN [@ EXCEPT !.pc = IF @ = "p1" THEN "p2" ELSE "finish"]
              ELSE [@ EXCEPT !.pc = "finish", !.err = "Internal"]]
        /\ mirror' = IF ok THEN [mirror EXCEPT ![TaskPath(t)] = Fetched(@)] ELSE mirror
    /\ UNCHANGED <<upHead, parent, now, managedRepos, mu, dirExists, initCount,
                   lastUpdate, offered, proc, bundle, manifests, faults>>

\* lastUpdate set whatever the fetch's outcome.
UpdatedAlways(old, err, start) == start

\* "if err == nil { r.lastUpdate = startTime }".
UpdatedLastUpdate(old, err, start) == IF err = "nil" THEN start ELSE old

\* The end of a fetchUpstream whose goroutine sends its error on a channel
\* without buffer: the send waits for the handler's receive.
FetchFinishUnbuffered(t) ==
    /\ task[t].pc = "finish"
    /\ task[t].kind = "fg" => proc[t[1]].used = t[2] /\ proc[t[1]].pc = "wait"
    /\ lastUpdate' = [lastUpdate EXCEPT ![TaskPath(t)] =
                          IF task[t].err = "nil" THEN task[t].start ELSE @]
    /\ mu' = [mu EXCEPT ![TaskPath(t)] = [@ EXCEPT !.w = Nobody]]
    /\ task' = [task EXCEPT ![t] = [@ EXCEPT !.pc = "done", !.kind = "bg", !.split = FALSE,
                                             !.start = 0]]
    /\ proc' = IF task[t].kind = "fg"
               THEN [proc EXCEPT ![t[1]] = [@ EXCEPT !.fetchDone = task[t].err]]
               ELSE proc
    /\ UNCHANGED <<upHead, parent, now, managedRepos, dirExists, initCount,
                   mirror, offered, bundle, manifests, faults>>

\* The end of fetchUpstream: lastUpdate, the deferred Unlock, and for a fetch
\* command's goroutine "fetchDone <- err" on the buffered channel, which
\* nobody reads once the handler has returned.
FetchFinish(t) ==
    /\ task[t].pc = "finish"
    /\ lastUpdate' = [lastUpdate EXCEPT ![TaskPath(t)] =
                          UpdatedLastUpdate(@, task[t].err, task[t].start)]
    /\ mu' = [mu EXCEPT ![TaskPath(t)] = [@ EXCEPT !.w = Nobody]]
    /\ task' = [task EXCEPT ![t] = [@ EXCEPT !.pc = "done", !.kind = "bg", !.split = FALSE,
                                             !.start = 0]]
    /\ proc' = IF task[t].kind = "fg" /\ proc[t[1]].used = t[2] /\ proc[t[1]].pc = "wait"
               THEN [proc EXCEPT ![t[1]] = [@ EXCEPT !.fetchDone = task[t].err]]
               ELSE proc
    /\ UNCHANGED <<upHead, parent, now, managedRepos, dirExists, initCount,
                   mirror, offered, bundle, manifests, faults>>

\* ----------------------------------------------------------------- upstream
\* Somebody pushes a new commit to the upstream's master: on top of the tip,
\* or (a force-update) with a history of its own.
UpstreamPush ==
    /\ upHead < MaxCommit
    /\ upHead' = upHead + 1
    /\ \E old \in {0, upHead} : parent' = [parent EXCEPT ![upHead + 1] = old]
    /\ UNCHANGED <<now, managedRepos, mu, dirExists, initCount, mirror,
                   lastUpdate, offered, proc, task, bundle, manifests, faults>>

\* A push that replaces the branch by a commit with a history of its own.
Rewound(tip) == 0

\* The commit that a push without force makes its new commit on: the tip.
FastForward(tip) == tip

\* Somebody pushes to an upstream that is never rewound: the new commit is
\* made on top of the tip.
UpstreamAdvance ==
    /\ upHead < MaxCommit
    /\ upHead' = upHead + 1
    /\ parent' = [parent EXCEPT ![upHead + 1] = FastForward(upHead)]
    /\ UNCHANGED <<now, managedRepos, mu, dirExists, initCount, mirror,
                   lastUpdate, offered, proc, task, bundle, manifests, faults>>

\* --------------------------------------------------------------- the bucket
\* A bundle in the bucket is named by the seconds of a lastUpdate (ts) and
\* holds the branch at commit head.  A manifest is named by the seconds of the
\* end of its snapshot cycle (ts) and lists the URLs of the repositories of
\* the cycle (urls); the URL of a repository is written as its local path.

\* manifestCleanUpDuration, 24 hours, in the unit of the model's clock.
ManifestCleanUpDuration == 1

\* A line of a manifest that url.Parse rejects.
BadURL == "%zz"

URLs == Paths \cup {BadURL}

\* The failures of the environment of the backup process: the listing of
\* objects fails ("list"), an object cannot be read ("read"), the manifest
\* cannot be written ("write"), an object cannot be deleted ("delete"), and
\* OpenManagedRepository rejects a URL ("open").  Outcomes(kind) are the
\* outcomes of an operation that may fail in that way: TRUE is its success.
Faults == {"list", "read", "write", "delete", "open"}
Outcomes(kind) == IF kind \in faults THEN BOOLEAN ELSE {TRUE}

\* A line that the backup process writes to its logger, or an operation that
\* it reports to the logger of long running operations.
Logged(kind, u, n) == [kind |-> kind, url |-> u, n |-> n]

\* The objects under the prefix of a repository are named by ts.  The name of
\* a bundle is the decimal numeral of a time, twelve digits wide, so that the
\* order of the names is the order of the times.  DotName and LetterName are
\* names that are no numerals: one starts with a dot and sorts before every
\* numeral, the other starts with a letter and sorts after them.  An object
\* that is no bundle has head 0.
DotName == -1
LetterName == 100
NonBundles == {[ts |-> DotName, head |-> 0], [ts |-> LetterName, head |-> 0]}

\* strconv.ParseInt(path.Base(name), 10, 64).
ParseInt(name) ==
    IF name \in {DotName, LetterName} THEN [err |-> TRUE, n |-> 0]
    ELSE [err |-> FALSE, n |-> name]

\* gcBundle, names[0]: the listing of a prefix is in the order of the names.
FirstListed(bs) == CHOOSE b \in bs : \A c \in bs : b.ts <= c.ts

\* gcBundle, bundles[0] after the sort in reverse order: the object with the
\* largest name.
Newest(bs) == CHOOSE b \in bs : \A c \in bs : c.ts <= b.ts

\* gcBundle, "Ignore non-bundles": the test parses names[0] for every name
\* of the listing, so that every object is taken for a bundle when the first
\* name is a numeral, and none when it is not.
Bundles(bs) == IF bs = {} \/ ParseInt(FirstListed(bs).ts).err THEN {} ELSE bs

\* gcBundle, what it returns: the time that the largest name parses to (the
\* error of ParseInt is dropped) with the object of that name, or the zero
\* time and no name when it has found no bundle.
LatestBundle(bs) ==
    IF Bundles(bs) = {} THEN NoBundle
    ELSE [ts |-> ParseInt(Newest(bs).ts).n, head |-> Newest(bs).head]

\* gcBundle, what it leaves under the prefix: bundles[1:] are deleted.
GcBundle(bs) == IF Bundles(bs) = {} THEN bs ELSE {Newest(bs)}

\* A reader of the manifests that gives up at the first manifest it cannot
\* open.
ReadRepoListOrNothing(ms, unreadable, partial) ==
    IF unreadable # {} THEN {} ELSE UNION {m.urls : m \in ms}

\* readRepoList when the listing succeeds: the union of the lines of the
\* manifests that readManifest reads to their end, and the lines, partial,
\* that it had read of the others when their reading failed.
ReadRepoList(ms, unreadable, partial) ==
    partial \cup UNION {m.urls : m \in ms \ unreadable}

\* ------------------------------------------------------------- backup task
\* recoverFromBackup, readRepoList: the listing of the manifests fails and
\* nothing is recovered, or every manifest is read; a manifest that cannot be
\* opened, or whose reading fails before its end, is logged.
BkReadRepoList ==
    /\ proc[Bk].pc = "new"
    /\ \E listed \in Outcomes("list"),
          unreadable \in {ms \in SUBSET manifests : ms = {} \/ "read" \in faults} :
       \E partial \in SUBSET UNION {m.urls : m \in unreadable} :
        proc' = [proc EXCEPT ![Bk] =
            IF listed
            THEN [@ EXCEPT !.pc = "idle",
                           !.todo = ReadRepoList(manifests, unreadable, partial),
                           !.log = @ \cup {Logged("manifest", "", m.ts) : m \in unreadable}]
            ELSE [@ EXCEPT !.pc = "idle", !.todo = {},
                           !.log = @ \cup {Logged("list", "", 0)}]]
    /\ UNCHANGED <<upHead, parent, now, managedRepos, mu, dirExists, initCount,
                   mirror, lastUpdate, offered, task, bundle, manifests, faults>>

\* recoverFromBackup, one URL of the manifests: url.Parse, then
\* downloadBackupBundle, which calls gcBundle and copies the repository's
\* newest bundle to <cache-root>/tmp-bundle, then OpenManagedRepository, whose
\* canonicalizer may reject the URL.  Each failure is logged and the loop goes
\* on with the next URL.
BkRecoverStart(u) ==
    /\ proc[Bk].pc = "idle"
    /\ proc[Bk].stage = "recover"
    /\ u \in proc[Bk].todo
    /\ IF u = BadURL
       THEN /\ proc' = [proc EXCEPT ![Bk] =
                    [@ EXCEPT !.todo = @ \ {u}, !.log = @ \cup {Logged("url", u, 0)}]]
            /\ UNCHANGED bundle
       ELSE \E listed \in Outcomes("list"), read \in Outcomes("read"),
               opened \in Outcomes("open") :
            LET latest == LatestBundle(bundle[u])
                skip(kind) == [proc[Bk] EXCEPT !.todo = @ \ {u},
                                               !.log = @ \cup {Logged(kind, u, 0)}]
            IN /\ bundle' = IF listed THEN [bundle EXCEPT ![u] = GcBundle(@)] ELSE bundle
               /\ proc' = [proc EXCEPT ![Bk] =
                    IF ~listed \/ Bundles(bundle[u]) = {} \/ ~read
                    THEN skip("bundle")
                    ELSE IF ~opened
                    THEN [skip("open") EXCEPT !.tmp = latest.head]
                    ELSE [@ EXCEPT !.pc = "getRepo", !.path = u, !.todo = @ \ {u},
                                   !.tmp = latest.head]]
    /\ UNCHANGED <<upHead, parent, now, managedRepos, mu, dirExists, initCount,
                   mirror, lastUpdate, offered, task, manifests, faults>>

\* RecoverFromBundle, startOperation("ReadBundle") and r.mu.Lock().
RecoverLock ==
    /\ proc[Bk].pc = "recoverLock"
    /\ CanLock(proc[Bk].path)
    /\ mu' = [mu EXCEPT ![proc[Bk].path] = [@ EXCEPT !.w = Goroutine(Bk)]]
    /\ proc' = [proc EXCEPT ![Bk] =
            [@ EXCEPT !.pc = "recovering",
                      !.log = @ \cup {Logged("ReadBundle", proc[Bk].path, proc[Bk].tmp)}]]
    /\ UNCHANGED <<upHead, parent, now, managedRepos, dirExists, initCount,
                   mirror, lastUpdate, offered, task, bundle, manifests, faults>>

\* A fetch from the bundle that brings the refs without their objects.
RecoveredRefs(m, b) == [master |-> b, objs |-> m.objs]

\* What "git fetch -f <bundle> refs/*:refs/*" leaves in the mirror, the
\* bundle holding master at commit b.
Recovered(m, b) == [master |-> b, objs |-> m.objs \cup Anc(b)]

\* RecoverFromBundle, the git fetch from the bundle (which may fail, and
\* fails on a file that is no bundle), op.Done
\* with its outcome and the deferred Unlock; then os.Remove of the scratch
\* file.
RecoverFetch ==
    /\ proc[Bk].pc = "recovering"
    /\ LET p == proc[Bk].path IN
        /\ \E ok \in IF proc[Bk].tmp = 0 THEN {FALSE} ELSE BOOLEAN :
            /\ mirror' = IF ok THEN [mirror EXCEPT ![p] = Recovered(@, proc[Bk].tmp)]
                         ELSE mirror
            /\ proc' = [proc EXCEPT ![Bk] =
                    [@ EXCEPT !.pc = "idle", !.tmp = 0, !.handle = None,
                              !.log = @ \cup {Logged(IF ok THEN "ReadBundle done"
                                                     ELSE "ReadBundle failed", p, proc[Bk].tmp)}]]
        /\ mu' = [mu EXCEPT ![p] = [@ EXCEPT !.w = Nobody]]
    /\ UNCHANGED <<upHead, parent, now, managedRepos, dirExists, initCount,
                   lastUpdate, offered, task, bundle, manifests, faults>>

\* A process that starts the goroutine of the snapshot cycles next to
\* recoverFromBackup instead of after it.
BkRecoverDetached ==
    /\ proc[Bk].pc = "idle"
    /\ proc[Bk].stage = "recover"
    /\ proc' = [proc EXCEPT ![Bk] = [@ EXCEPT !.stage = "snapshot"]]
    /\ UNCHANGED <<upHead, parent, now, managedRepos, mu, dirExists, initCount,
                   mirror, lastUpdate, offered, task, bundle, manifests, faults>>

\* RunBackupProcess: recoverFromBackup has returned and the goroutine of the
\* snapshot cycles starts.
BkRecoverDone ==
    /\ proc[Bk].pc = "idle"
    /\ proc[Bk].stage = "recover"
    /\ proc[Bk].todo = {}
    /\ proc' = [proc EXCEPT ![Bk] = [@ EXCEPT !.stage = "snapshot"]]
    /\ UNCHANGED <<upHead, parent, now, managedRepos, mu, dirExists, initCount,
                   mirror, lastUpdate, offered, task, bundle, manifests, faults>>

\* The timer of the snapshot goroutine fires and saveBackup starts:
\* ListManagedRepositories ranges over the handles of the registry.  round is
\* the number of the cycle.
SaveBackupStart ==
    /\ proc[Bk].pc = "idle"
    /\ proc[Bk].stage = "snapshot"
    /\ proc[Bk].round <= MaxCycles
    /\ proc' = [proc EXCEPT ![Bk] =
            [@ EXCEPT !.pc = "cycle", !.urls = {}, !.ret = "none",
                      !.todo = {p \in Paths : managedRepos[p] # None}]]
    /\ UNCHANGED <<upHead, parent, now, managedRepos, mu, dirExists, initCount,
                   mirror, lastUpdate, offered, task, bundle, manifests, faults>>

\* saveBackup, ListManagedRepositories reaches the handle of path p: gcBundle
\* deletes the bundles of the repository but the newest (or its listing fails
\* and the repository is skipped), then m.LastUpdateTime() is called.
BkVisit(p) ==
    /\ proc[Bk].pc = "cycle"
    /\ p \in proc[Bk].todo
    /\ \E listed \in Outcomes("list") :
        /\ bundle' = IF listed THEN [bundle EXCEPT ![p] = GcBundle(@)] ELSE bundle
        /\ proc' = [proc EXCEPT ![Bk] =
                IF listed THEN [@ EXCEPT !.pc = "rlock1", !.path = p, !.todo = @ \ {p}]
                ELSE [@ EXCEPT !.todo = @ \ {p}]]
    /\ UNCHANGED <<upHead, parent, now, managedRepos, mu, dirExists, initCount,
                   mirror, lastUpdate, offered, task, manifests, faults>>

\* LastUpdateTime, r.mu.RLock().
LastUpdateTimeRLock ==
    /\ proc[Bk].pc \in {"rlock1", "rlock2"}
    /\ CanRLock(proc[Bk].path)
    /\ mu' = [mu EXCEPT ![proc[Bk].path] = [@ EXCEPT !.r = @ \cup {Bk}]]
    /\ proc' = [proc EXCEPT ![Bk] = [@ EXCEPT !.pc = IF @ = "rlock1" THEN "read1" ELSE "read2"]]
    /\ UNCHANGED <<upHead, parent, now, managedRepos, dirExists, initCount,
                   mirror, lastUpdate, offered, task, bundle, manifests, faults>>

\* saveBackup: "latestBundleSecPrecision.Unix() >= m.LastUpdateTime().Unix()":
\* the existing bundle is up to date.
UpToDate(bundleTs, lu) == bundleTs >= lu

\* LastUpdateTime returns r.lastUpdate and releases the read lock.  The first
\* call decides whether a bundle is written (when none is, the URL joins the
\* URLs of the cycle), the second (backupManagedRepo) names the bundle.
LastUpdateTimeReturn ==
    /\ proc[Bk].pc \in {"read1", "read2"}
    /\ LET p == proc[Bk].path
           lu == lastUpdate[p]
           latest == LatestBundle(bundle[p])
       IN /\ mu' = [mu EXCEPT ![p] = [@ EXCEPT !.r = @ \ {Bk}]]
          /\ proc' = [proc EXCEPT ![Bk] =
                CASE @.pc = "read1" /\ UpToDate(latest.ts, lu) ->
                        [@ EXCEPT !.pc = "cycle", !.urls = @ \cup {p}]
                  [] @.pc = "read1" /\ ~UpToDate(latest.ts, lu) -> [@ EXCEPT !.pc = "rlock2"]
                  [] OTHER -> [@ EXCEPT !.pc = "writeBundle", !.tmp = lu]]
    /\ UNCHANGED <<upHead, parent, now, managedRepos, dirExists, initCount,
                   mirror, lastUpdate, offered, task, bundle, manifests, faults>>

\* The object that a writer commits under name ts: it replaces the object of
\* that name.
Put(objects, ts, object) == {o \in objects : o.ts # ts} \cup {object}

\* backupManagedRepo, m.WriteBundle(wc): git bundle create - --all reads the
\* mirror without any lock; it fails on a mirror without refs, and then the
\* repository is left out of the URLs of the cycle.
WriteBundle ==
    /\ proc[Bk].pc = "writeBundle"
    /\ LET p == proc[Bk].path
           written == mirror[p].master # 0
       IN /\ bundle' = IF written
                       THEN [bundle EXCEPT ![p] =
                                Put(@, proc[Bk].tmp, [ts |-> proc[Bk].tmp, head |-> mirror[p].master])]
                       ELSE bundle
          /\ proc' = [proc EXCEPT ![Bk] =
                        [@ EXCEPT !.pc = "cycle", !.tmp = 0,
                                  !.urls = IF written THEN @ \cup {p} ELSE @]]
    /\ UNCHANGED <<upHead, parent, now, managedRepos, mu, dirExists, initCount,
                   mirror, lastUpdate, offered, task, manifests, faults>>

\* writeManifestFile: the manifest of the cycle, named by the seconds of now.
WriteManifestFile(ms, t, urls) == Put(ms, t, [ts |-> t, urls |-> urls])

\* A collection of the manifests that are older than two days.
OlderThanTwoDays(ms, t) == {m \in ms : m.ts < t - 2 * ManifestCleanUpDuration}

\* garbageCollectOldManifests(now): the manifests whose name is a time before
\* the threshold, now - manifestCleanUpDuration.
OldManifests(ms, t) == {m \in ms : m.ts < t - ManifestCleanUpDuration}

\* The end of saveBackup: time.Now(), writeManifestFile and
\* garbageCollectOldManifests.  When the manifest cannot be written (which
\* takes a URL to write) saveBackup returns before the collection; in the
\* collection the listing may fail at any object and the error of a Delete is
\* dropped, so that any of the old manifests may stay.  ret tells how the
\* cycle ended and at is its reading of the clock.
SaveBackupEnd ==
    /\ proc[Bk].pc = "cycle"
    /\ proc[Bk].todo = {}
    /\ now' = Min(now + 1, MaxTime)
    /\ \E written \in Outcomes("write") :
        LET ended(ret) == [proc[Bk] EXCEPT !.pc = "idle", !.at = now, !.ret = ret,
                                           !.urls = {}, !.round = @ + 1]
            ms == WriteManifestFile(manifests, now, proc[Bk].urls)
            old == OldManifests(ms, now)
        IN IF ~written
           THEN /\ proc[Bk].urls # {}
                /\ manifests' = manifests
                /\ proc' = [proc EXCEPT ![Bk] = ended("fail")]
           ELSE \E deleted \in {d \in SUBSET old : d = old \/ faults \cap {"list", "delete"} # {}} :
                /\ manifests' = ms \ deleted
                /\ proc' = [proc EXCEPT ![Bk] = ended(IF deleted = old THEN "ok" ELSE "kept")]
    /\ UNCHANGED <<upHead, parent, managedRepos, mu, dirExists, initCount,
                   mirror, lastUpdate, offered, task, bundle, faults>>

\* ------------------------------------------------------ the server process
\* main: http.ListenAndServe is called when RunBackupProcess has returned,
\* which is when recoverFromBackup is over; only then is a request served.
Serve(c) ==
    /\ proc[Bk].stage = "snapshot"
    /\ ReqStart(c)

\* The session that asks for commit 1: ls-refs, then fetch want 1.
SessionOfOne == <<LsRefs, [name |-> "fetch", hash |-> 1, ref |-> FALSE]>>

\* Server A stops after a snapshot cycle and server B starts on the same
\* bucket with an empty cache directory: its registry is empty, none of A's
\* goroutines is left, and its first client posts the session that asks
\* for commit 1.  The cycles of A count towards MaxCycles.
Restart ==
    /\ proc[Bk].server = "A"
    /\ proc[Bk].pc = "idle"
    /\ proc[Bk].stage = "snapshot"
    /\ proc[Bk].ret # "none"
    /\ managedRepos' = [p \in Paths |-> None]
    /\ mu' = [p \in Paths |-> Unlocked]
    /\ dirExists' = [p \in Paths |-> FALSE]
    /\ initCount' = [p \in Paths |-> 0]
    /\ mirror' = [p \in Paths |-> EmptyMirror]
    /\ lastUpdate' = [p \in Paths |-> 0]
    /\ task' = [t \in Tasks |-> IdleTask]
    /\ proc' = [o \in Openers |->
                    [NewProc(ChildPath) EXCEPT !.server = "B",
                                               !.round = IF o = Bk THEN proc[Bk].round ELSE @]]
    /\ offered' = [offered EXCEPT !["c1"] = {SessionOfOne}]
    /\ UNCHANGED <<upHead, parent, now, bundle, manifests, faults>>

\* The hook is applied to the URL that goroutine c holds, and once more to
\* the URL that it returned; round is the number of the application.
Canonicalize(c) ==
    /\ proc[c].pc = "new"
    /\ proc[c].err = "nil"
    /\ proc[c].round <= 2
    /\ LET res == CanonicalizeURL(proc[c].url) IN
        proc' = [proc EXCEPT ![c] = [@ EXCEPT !.url = res.url, !.err = res.err,
                                              !.round = @ + 1]]
    /\ UNCHANGED <<upHead, parent, now, managedRepos, mu, dirExists, initCount,
                   mirror, lastUpdate, offered, task, bundle, manifests, faults>>

\* ------------------------------------------------------------ specification
\* A fresh cache directory and an upstream with one commit.
InitShared ==
    /\ upHead = 1
    /\ parent = [k \in 1..MaxCommit |-> 0]
    /\ now = 1
    /\ managedRepos = [p \in Paths |-> None]
    /\ mu = [p \in Paths |-> Unlocked]
    /\ dirExists = [p \in Paths |-> FALSE]
    /\ initCount = [p \in Paths |-> 0]
    /\ mirror = [p \in Paths |-> EmptyMirror]
    /\ lastUpdate = [p \in Paths |-> 0]
    /\ task = [t \in Tasks |-> IdleTask]

\* The workload: client c posts one request for the repository at path[c],
\* its body drawn from reqs[c]; the backup goroutine is at the start of
\* RunBackupProcess.
Workload(path, reqs) ==
    /\ offered = reqs
    /\ proc = [o \in Openers |-> NewProc(IF o = Bk THEN ChildPath ELSE path[o])]

\* A bucket without any object, and an environment without failures.
EmptyBucket ==
    /\ bundle = [p \in Paths |-> {}]
    /\ manifests = {}
    /\ faults = {}

OneCommand == {r \in Requests : Len(r) = 1}
Sessions == {r \in Requests : Len(r) = 2}
ColdFetch == {<<[name |-> "fetch", hash |-> 1, ref |-> FALSE]>>}

\* Two requests of one command each for the repository at ChildPath.
Init ==
    /\ InitShared
    /\ Workload([c \in Clients |-> ChildPath], [c \in Clients |-> OneCommand])
    /\ EmptyBucket

\* A session (ls-refs, then fetch) next to a fetch of commit 1.
InitSession ==
    /\ InitShared
    /\ Workload([c \in Clients |-> ChildPath],
                [c \in Clients |-> IF c = "c1" THEN Sessions ELSE ColdFetch])
    /\ EmptyBucket

\* Every client fetches commit 1 from the empty mirror.
InitCold ==
    /\ InitShared
    /\ Workload([c \in Clients |-> ChildPath], [c \in Clients |-> ColdFetch])
    /\ EmptyBucket

\* What an earlier process has left in the bucket: a manifest that names the
\* repository at ChildPath and is older than a day, and possibly a bundle of
\* commit 1 with the manifest of its cycle.
LeftBucket ==
    \E bs \in {{}, {[ts |-> 1, head |-> 1]}} :
        /\ bundle = [p \in Paths |-> IF p = ChildPath THEN bs ELSE {}]
        /\ manifests = {[ts |-> t, urls |-> {ChildPath}] : t \in {0} \cup {b.ts : b \in bs}}

\* The backup process next to a request of one command and a request without
\* commands.
InitBackup ==
    /\ InitShared
    /\ Workload([c \in Clients |-> ChildPath],
                [c \in Clients |-> IF c = "c1" THEN OneCommand ELSE {<<>>}])
    /\ LeftBucket
    /\ faults = {}

\* The backup process next to two fetches of commit 1, on the bucket that an
\* earlier process has left.
InitFresh ==
    /\ InitShared
    /\ Workload([c \in Clients |-> ChildPath], [c \in Clients |-> ColdFetch])
    /\ LeftBucket
    /\ faults = {}

\* The backup process next to a fetch of commit 1, on a bucket with a
\* manifest that names the repository, whose prefix holds any of two bundles
\* and two objects that are no bundles.
InitGc ==
    /\ InitShared
    /\ Workload([c \in Clients |-> ChildPath],
                [c \in Clients |-> IF c = "c1" THEN ColdFetch ELSE {<<>>}])
    /\ \E bs \in SUBSET ({[ts |-> 1, head |-> 1], [ts |-> 2, head |-> 1]} \cup NonBundles) :
          bundle = [p \in Paths |-> IF p = ChildPath THEN bs ELSE {}]
    /\ manifests = {[ts |-> 1, urls |-> {ChildPath}]}
    /\ faults = {}

\* The users of the repository locks together: two clients open the
\* repositories at any two paths, one of them with a fetch of commit 1, the
\* backup process recovers one of the repositories from its bundle and then
\* runs the last of its snapshot cycles.
InitLocks ==
    /\ InitShared
    /\ offered = [c \in Clients |-> IF c = "c1" THEN ColdFetch ELSE {<<>>}]
    /\ \E path \in [Clients -> Paths] :
          proc = [o \in Openers |-> IF o = Bk THEN [NewProc(ChildPath) EXCEPT !.round = MaxCycles]
                                    ELSE NewProc(path[o])]
    /\ bundle = [p \in Paths |-> {[ts |-> 0, head |-> 1]}]
    /\ \E u \in Paths : manifests = {[ts |-> 0, urls |-> {u}]}
    /\ faults = {}

\* The backup process next to two fetches of commit 1, on a bucket whose
\* bundle and manifest an earlier process has written before this one was
\* started.
InitStale ==
    /\ InitShared
    /\ Workload([c \in Clients |-> ChildPath], [c \in Clients |-> ColdFetch])
    /\ bundle = [p \in Paths |-> IF p = ChildPath THEN {[ts |-> 0, head |-> 1]} ELSE {}]
    /\ manifests = {[ts |-> 0, urls |-> {ChildPath}]}
    /\ faults = {}

\* The same, with a bucket whose manifest cannot always be written and whose
\* objects cannot always be deleted.
InitSnapshot ==
    /\ InitShared
    /\ Workload([c \in Clients |-> ChildPath],
                [c \in Clients |-> IF c = "c1" THEN OneCommand ELSE {<<>>}])
    /\ LeftBucket
    /\ faults = {"write", "delete"}

\* Server A with an empty bucket: one client fetches commit 1, the other posts
\* a request without commands.
InitRoundTrip ==
    /\ InitShared
    /\ Workload([c \in Clients |-> ChildPath],
                [c \in Clients |-> IF c = "c1" THEN ColdFetch ELSE {<<>>}])
    /\ EmptyBucket

\* The start of a server on a bucket with three manifests, one with a line
\* that is not a URL, and with no bundle, one bundle or two bundles of each
\* repository, in an environment where listings, readings and the opening of
\* a repository may fail.  The upstream has two commits.
InitRecovery ==
    /\ upHead = 2
    /\ parent = [k \in 1..MaxCommit |-> IF k = 2 THEN 1 ELSE 0]
    /\ now = 2
    /\ managedRepos = [p \in Paths |-> None]
    /\ mu = [p \in Paths |-> Unlocked]
    /\ dirExists = [p \in Paths |-> FALSE]
    /\ initCount = [p \in Paths |-> 0]
    /\ mirror = [p \in Paths |-> EmptyMirror]
    /\ lastUpdate = [p \in Paths |-> 0]
    /\ task = [t \in Tasks |-> IdleTask]
    /\ Workload([c \in Clients |-> ChildPath], [c \in Clients |-> {<<>>}])
    /\ bundle \in [Paths -> {{}, {[ts |-> 1, head |-> 1]},
                              {[ts |-> 1, head |-> 1], [ts |-> 2, head |-> 2]}}]
    /\ manifests = {[ts |-> 0, urls |-> {ParentPath, BadURL}],
                    [ts |-> 1, urls |-> {ParentPath}],
                    [ts |-> 2, urls |-> {ChildPath}]}
    /\ faults = {"list", "read", "open"}

\* The URLs whose path has at most MaxPath parts and starts with a slash.
URLSet ==
    [scheme : {"http", "https"},
     host : GoogleSourceHosts \cup {"source.developers.google.com", "example.com"},
     path : {p \in UNION {[1..n -> PathParts] : n \in 0..MaxPath} :
                Len(p) = 0 \/ p[1] # ".git"}]

\* The first client holds any URL of URLSet.
InitCanonical ==
    /\ InitShared
    /\ offered = [c \in Clients |-> {<<>>}]
    /\ \E u \in URLSet :
          proc = [o \in Openers |->
                    [NewProc(ChildPath) EXCEPT !.url = IF o = "c1" THEN u ELSE @]]
    /\ EmptyBucket

\* A client that asks for the upstream's tags, after its branches or alone,
\* next to a fetch of commit 1.
InitTags ==
    /\ InitShared
    /\ Workload([c \in Clients |-> ChildPath],
                [c \in Clients |-> IF c = "c1" THEN {<<LsRefs, LsRefsTags>>, <<LsRefsTags>>}
                                   ELSE ColdFetch])
    /\ EmptyBucket

\* Requests without commands that open repositories, next to the recovery of
\* the repositories that a manifest names from their bundles.
InitRegistry ==
    /\ InitShared
    /\ \E path \in [Clients -> Paths], urls \in SUBSET Paths :
          /\ Workload(path, [c \in Clients |-> {<<>>}])
          /\ manifests = IF urls = {} THEN {} ELSE {[ts |-> 1, urls |-> urls]}
    /\ bundle = [p \in Paths |-> {[ts |-> 1, head |-> 1]}]
    /\ faults = {}

\* The session of the cold fetch of commit 1, which its client repeats, next
\* to a fetch of commit 1.
InitWarm ==
    /\ InitShared
    /\ Workload([c \in Clients |-> ChildPath],
                [c \in Clients |-> IF c = "c1" THEN {<<LsRefs, [name |-> "fetch", hash |-> 1, ref |-> FALSE]>>}
                                   ELSE ColdFetch])
    /\ EmptyBucket

\* A fetch with a want line that cannot be parsed, next to a fetch of
\* commit 1.
InitMalformed ==
    /\ InitShared
    /\ Workload([c \in Clients |-> ChildPath],
                [c \in Clients |-> IF c = "c1" THEN {<<MalformedFetch>>} ELSE ColdFetch])
    /\ EmptyBucket

\* A command that the server does not know.
Unknown == [name |-> "push", hash |-> 0, ref |-> FALSE]

\* Bodies with a command that is neither ls-refs nor fetch: alone, after a
\* valid command, and before one.
BadRequests ==
    {<<Unknown>>, <<LsRefs, Unknown>>, <<Unknown, LsRefs>>,
     <<[name |-> "fetch", hash |-> 1, ref |-> FALSE], Unknown>>}

\* Bodies of valid commands: none, ls-refs, a fetch of commit 1, and both.
GoodRequests ==
    {<<>>, <<LsRefs>>} \cup ColdFetch
    \cup {<<LsRefs, [name |-> "fetch", hash |-> 1, ref |-> FALSE]>>}

\* Any request of client c1, its bodies all valid, all with an unknown
\* command or all without commands, next to a fetch of commit 1.
InitHttp ==
    /\ InitShared
    /\ \E h \in HTTPRequests, bodies \in {GoodRequests, BadRequests, {<<>>}} :
          /\ offered = [c \in Clients |-> IF c = "c1" THEN bodies ELSE ColdFetch]
          /\ proc = [o \in Openers |->
                        IF o = Bk THEN NewProc(ChildPath)
                        ELSE IF o = "c1" THEN [NewProc(ChildPath) EXCEPT !.http = h]
                        ELSE NewProc(ChildPath)]
    /\ EmptyBucket

LsRefsHandler(c) == LsRefsUpstream(c) \/ LsRefsWrite(c)

FetchHandler(c) ==
    \/ FetchCheck(c) \/ WaitCancelled(c) \/ WaitFetchDone(c)
    \/ WaitTick(c) \/ ServeBegin(c) \/ ServeEnd(c)

Open(o) ==
    GetManagedRepo(o) \/ GetManagedRepoUnlock(o) \/ OpenLock(o) \/ OpenInit(o)

FetchUpstream(t) ==
    FetchOpen(t) \/ FetchLock(t) \/ GitFetch(t) \/ FetchFinish(t)

Recover ==
    \/ BkReadRepoList
    \/ \E u \in URLs : BkRecoverStart(u)
    \/ RecoverLock \/ RecoverFetch \/ BkRecoverDone

LastUpdateTime == LastUpdateTimeRLock \/ LastUpdateTimeReturn

SaveBackup ==
    \/ SaveBackupStart
    \/ \E p \in Paths : BkVisit(p)
    \/ LastUpdateTime \/ WriteBundle
    \/ SaveBackupEnd

\* Requests of fetch commands only, the upstream standing still.
NextCold ==
    \/ \E c \in Clients : ReqStart(c) \/ FetchHandler(c)
    \/ \E o \in Openers : Open(o)
    \/ \E t \in Tasks : FetchUpstream(t)

\* The server without the backup process.
Next ==
    \/ NextCold
    \/ UpstreamPush
    \/ \E c \in Clients : LsRefsHandler(c)

\* The server without the backup process, its upstream never rewound.
NextAdvance ==
    \/ NextCold
    \/ UpstreamAdvance
    \/ \E c \in Clients : LsRefsHandler(c)

\* The server with the backup process.
NextBackup ==
    \/ Next
    \/ Recover
    \/ SaveBackup

\* A server that is started as main starts it, with the backup process, and
\* started again after a snapshot cycle; the upstream stands still.
NextRoundTrip ==
    \/ \E c \in Clients : Serve(c) \/ LsRefsHandler(c) \/ FetchHandler(c)
    \/ \E o \in Openers : Open(o)
    \/ \E t \in Tasks : FetchUpstream(t)
    \/ Recover
    \/ SaveBackup
    \/ Restart

\* The server with the backup process, the upstream standing still.
NextLocks ==
    \/ NextCold
    \/ Recover
    \/ SaveBackup

\* The canonicalization of a URL and of its result.
NextCanonical == \E c \in Clients : Canonicalize(c)

\* A server that is started as main starts it, with the backup process, and
\* serves fetch commands; the upstream stands still.
NextFresh ==
    \/ \E c \in Clients : Serve(c) \/ FetchHandler(c)
    \/ \E o \in Openers : Open(o)
    \/ \E t \in Tasks : FetchUpstream(t)
    \/ Recover
    \/ SaveBackup

\* The recovery of a server's start, before any request is served.
NextRecovery ==
    \/ Recover
    \/ \E o \in Openers : Open(o)

\* Opening and recovering repositories, and reading their last update.
NextRegistry ==
    \/ \E c \in Clients : ReqStart(c)
    \/ \E o \in Openers : Open(o)
    \/ Recover
    \/ SaveBackupStart
    \/ \E p \in Paths : BkVisit(p)
    \/ LastUpdateTime
    \/ SaveBackupEnd

\* Requests that are repeated, the upstream standing still.
NextWarm ==
    \/ NextCold
    \/ \E c \in Clients : LsRefsHandler(c) \/ ReqRepeat(c)

\* Requests of any kind, the upstream standing still.
NextHttp ==
    \/ NextCold
    \/ \E c \in Clients : LsRefsHandler(c)

Spec == Init /\ [][Next]_vars
SpecHttp == InitHttp /\ [][NextHttp]_vars
SpecWarm == InitWarm /\ [][NextWarm]_vars
SpecSession == InitSession /\ [][Next]_vars
SpecCold == InitCold /\ [][NextCold]_vars
SpecAdvance == Init /\ [][NextAdvance]_vars
SpecMalformed == InitMalformed /\ [][NextCold]_vars
SpecBackup == InitBackup /\ [][NextBackup]_vars
SpecCanonical == InitCanonical /\ [][NextCanonical]_vars
SpecTags == InitTags /\ [][Next]_vars
SpecFresh == InitFresh /\ [][NextFresh]_vars
SpecGc == InitGc /\ [][NextFresh]_vars
SpecRecovery == InitRecovery /\ [][NextRecovery]_vars
SpecRoundTrip == InitRoundTrip /\ [][NextRoundTrip]_vars
SpecSnapshot == InitSnapshot /\ [][NextBackup]_vars
SpecRegistry == InitRegistry /\ [][NextRegistry]_vars

\* Scheduling: every goroutine that can take a step takes one, a goroutine
\* waiting in Lock() gets the mutex when it is free again and again, every git
\* subprocess ends, and every client posts its request.  A client is free to
\* cancel or not.
Fairness ==
    /\ \A c \in Clients :
          /\ WF_vars(ReqStart(c))
          /\ WF_vars(FetchCheck(c) \/ WaitFetchDone(c) \/ WaitTick(c))
          /\ WF_vars(ServeBegin(c) \/ ServeEnd(c))
    /\ \A o \in Openers :
          /\ WF_vars(GetManagedRepo(o) \/ GetManagedRepoUnlock(o) \/ OpenInit(o))
          /\ SF_vars(OpenLock(o))
    /\ \A t \in Tasks :
          /\ WF_vars(FetchOpen(t) \/ GitFetch(t) \/ FetchFinish(t))
          /\ SF_vars(FetchLock(t))

FairCold == SpecCold /\ Fairness

SpecStale == InitStale /\ [][NextFresh]_vars
SpecLocks == InitLocks /\ [][NextLocks]_vars

\* ------------------------------------------------------------------ claims
\* Client c runs a fetch command that wants the commit its ls-refs command,
\* earlier in the same request, saw advertised.
WantsAdvertised(c) ==
    /\ proc[c].cur.name = "fetch"
    /\ proc[c].cur.hash # 0
    /\ proc[c].cur.hash = proc[c].adv

\* The step in which the handler of c's fetch command returns false.
FetchFails(c) ==
    /\ proc[c].pc \in {"fetchCheck", "wait", "serve", "serving"}
    /\ proc'[c].pc = "done"
    /\ proc'[c].ret = "fail"

\* C1 as stated: a fetch command that wants the commit H advertised by the
\* ls-refs before it fails only when the client cancelled (Canceled) or the
\* upstream fetch failed (Internal), and it is served from a mirror that
\* holds H.
C1_FreshAfterLsRefs ==
    [][\A c \in Clients :
          /\ (WantsAdvertised(c) /\ FetchFails(c)) =>
                proc'[c].err \in {"context canceled", "Internal"}
          /\ (WantsAdvertised(c) /\ proc'[c].pc = "serving") =>
                proc'[c].served = "complete"]_vars

\* C1 amended: a fetch command that wants the commit H advertised by the
\* ls-refs before it is served from a mirror that holds H, and it fails only
\* when the client cancelled, when the upstream fetch failed, or, the upstream
\* fetch having succeeded, when a force-update has left H unreachable from
\* the upstream's branch.
C1_FreshUnlessRewound ==
    [][\A c \in Clients :
          /\ (WantsAdvertised(c) /\ FetchFails(c)) =>
                \/ proc'[c].err \in {"context canceled", "Internal"}
                \/ proc[c].cur.hash \notin Anc(upHead)
          /\ (WantsAdvertised(c) /\ proc'[c].pc = "serving") =>
                proc'[c].served = "complete"]_vars

\* The force-update case: the upstream's branch was replaced by commit 2, the
\* ls-refs advertised it, and the fetch command is served commit 2 after its
\* own upstream fetch.
C1_ServedFresh ==
    /\ parent[2] = 0
    /\ WantsAdvertised("c1")
    /\ proc["c1"].cur.hash = 2
    /\ proc["c1"].pc = "serving"
    /\ proc["c1"].served = "complete"
    /\ task[<<"c1", 2>>].pc = "done"
    /\ task[<<"c1", 2>>].err = "nil"

\* The fetchUpstream executions that ran git fetch against the upstream and
\* saw it succeed.
Fetches == {t \in Tasks : task[t].pc \in {"finish", "done"} /\ task[t].err = "nil"}

\* The fetchUpstream executions that hold the writer lock of path p.
Fetching(p) == {t \in Tasks : task[t].pc \in {"p1", "p2", "finish"} /\ TaskPath(t) = p}

NoFetchFailed == \A t \in Tasks : task[t].err = "nil"
NoneCancelled == \A c \in Clients : proc[c].err # "context canceled"
AllServed == \A c \in Clients : proc[c].pc = "done" /\ proc[c].ret = "ok"

\* C3: when all clients fetch the same commit, which the upstream has, from
\* the empty mirror, then unless an upstream fetch fails or a client cancels,
\* every command eventually returns success, and it is served from a mirror
\* that holds the commit.
C3_ColdFetchCompletes ==
    /\ <>(~NoFetchFailed \/ ~NoneCancelled \/ AllServed)
    /\ [](\A c \in Clients : proc[c].pc = "serving" => proc[c].served = "complete")

\* Both fetch commands returned success after two successful upstream fetches.
C3_AllServedCold == AllServed /\ NoFetchFailed /\ Cardinality(Fetches) = 2

\* The goroutines inside a write of the mirror of path p: a fetchUpstream
\* between Lock and Unlock, the initialization in openManagedRepository, and
\* RecoverFromBundle.
Writing(p) ==
    Fetching(p) \cup
    {Goroutine(o) : o \in {x \in Openers : /\ proc[x].path = p
                                           /\ proc[x].pc \in {"initRepo", "recovering"}}}

\* C4: at most one goroutine at a time is inside fetchUpstream's locked part,
\* the initialization or RecoverFromBundle of a repository, and it is the
\* goroutine that holds the repository's writer lock.
C4_WriterExclusion ==
    \A p \in Paths :
        /\ Cardinality(Writing(p)) <= 1
        /\ \A g \in Writing(p) : mu[p].w = g

\* A fetchUpstream is inside git fetch while RecoverFromBundle waits for the
\* lock.
C4_RecoverWaitsForFetch ==
    /\ task[<<"c1", 1>>].pc \in {"p1", "p2"}
    /\ proc[Bk].pc = "recoverLock"
    /\ proc[Bk].path = proc["c1"].path

\* C5 as stated: serveFetchLocal (like hasAnyUpdate and hasAllWants) never runs
\* while a writer holds the repository's lock.
C5_ReadersExcluded ==
    \A c \in Clients : proc[c].pc = "serving" => mu[proc[c].path].w = Nobody

\* C5 amended: the one reader that takes the lock (shared) is LastUpdateTime,
\* and it never reads while a writer holds the lock; hasAnyUpdate, hasAllWants
\* and serveFetchLocal take no lock and may run while a writer holds it.
C5_LastUpdateTimeExcluded ==
    /\ \A p \in Paths : mu[p].w = Nobody \/ mu[p].r = {}
    /\ proc[Bk].pc \in {"read1", "read2"} =>
          /\ Bk \in mu[proc[Bk].path].r
          /\ Writing(proc[Bk].path) = {}

\* LastUpdateTime holds the read lock and a fetchUpstream waits for it in
\* Lock().
C5_FetchWaitsForReader ==
    /\ proc[Bk].pc = "read1"
    /\ task[<<"c1", 1>>].pc = "lock"
    /\ proc[Bk].path = proc["c1"].path

\* C6: whenever serveFetchLocal begins, every wanted hash and every wanted ref
\* is in the mirror, whatever fetchUpstream and RecoverFromBundle did between
\* the handler's check and that moment.
C6_WantsPresentAtServe ==
    \A c \in Clients : proc[c].pc = "serving" => proc[c].served = "complete"

\* serveFetchLocal has begun with the wants present, after a force-update of
\* the upstream and while a fetchUpstream is still inside git fetch.
C6_ServedDuringFetch ==
    /\ proc["c1"].pc = "serving"
    /\ proc["c1"].served = "complete"
    /\ proc["c1"].cur.hash = 1
    /\ parent[2] = 0 /\ upHead = 2
    /\ task[<<"c1", 1>>].pc = "p2"

\* C7 as stated: the lastUpdate of a repository, which is what LastUpdateTime
\* returns, never decreases.
C7_LastUpdateMonotone ==
    [][\A p \in Paths : lastUpdate'[p] >= lastUpdate[p]]_vars

\* The step in which fetchUpstream task t returns.
Returns(t) == task[t].pc = "finish" /\ task'[t].pc = "done"

\* C8: lastUpdate changes only in the step in which a fetchUpstream returns
\* without error, and then to the start time of that fetchUpstream; a failed
\* fetchUpstream, RecoverFromBundle, WriteBundle and the readers leave it as
\* it is.
C8_LastUpdateOnlyOnSuccess ==
    [][\A p \in Paths :
          /\ lastUpdate'[p] # lastUpdate[p] =>
                \E t \in Tasks : /\ Returns(t) /\ TaskPath(t) = p
                                 /\ task[t].err = "nil"
                                 /\ lastUpdate'[p] = task[t].start
          /\ \A t \in Tasks :
                (Returns(t) /\ TaskPath(t) = p /\ task[t].err # "nil") =>
                    lastUpdate'[p] = lastUpdate[p]]_vars

\* A fetchUpstream has succeeded and the backup process writes the bundle of
\* the repository, named after its lastUpdate.
C8_BundleAfterFetch ==
    /\ lastUpdate[ChildPath] = 1
    /\ proc[Bk].pc = "writeBundle"
    /\ proc[Bk].tmp = 1
    /\ task[<<"c1", 1>>].pc = "done"

\* openManagedRepository has returned to opener o.
Opened(o) ==
    /\ proc[o].handle # None
    /\ proc[o].pc \notin {"getRepo", "unlockNew", "lockRepo", "initRepo"}

\* C9: the callers that open one local path (ChildPath, which no other path's
\* initialization creates) all get the handle that the registry holds, and
\* the initialization runs exactly once: never twice, and once by the time
\* the first caller has the handle back.
C9_OneHandleOneInit ==
    /\ \A o \in Openers :
          proc[o].handle # None => proc[o].handle = managedRepos[proc[o].path]
    /\ initCount[ChildPath] <= 1
    /\ (\E o \in Openers : Opened(o) /\ proc[o].path = ChildPath) =>
          initCount[ChildPath] = 1

\* Three callers have opened ChildPath and hold the same handle.
C9_ThreeOpeners ==
    /\ \A o \in Openers : Opened(o) /\ proc[o].path = ChildPath
    /\ \A o \in Openers : proc[o].handle = proc[Bk].handle
    /\ initCount[ChildPath] = 1

\* C10 as stated: from the publication of a new handle in the registry until
\* the initialization of its repository has run, its creator holds its writer
\* lock.
C10_LockedUntilInitialized ==
    \A p \in Paths :
        (managedRepos[p] # None /\ initCount[p] = 0 /\ ~dirExists[p]) =>
            mu[p].w = Goroutine(managedRepos[p])

\* A step that starts the fetchUpstream goroutine t.
Spawned(t) == task'[t].pc = "open" /\ task[t] # task'[t]

\* C11: when the session of a cold fetch (ls-refs, then fetch want H) was
\* answered with success and the upstream has not changed, the same session
\* posted again makes one call of the upstream, its ls-refs, and starts no
\* fetchUpstream: its fetch command does not miss and is served from the
\* mirror.
C11_WarmFetch ==
    [][\A c \in Clients : proc'[c].round > 1 =>
          /\ \A t \in Tasks : t[1] = c => ~Spawned(t)
          /\ proc'[c].pc # "wait"
          /\ proc'[c].lsCalls <= 1
          /\ (proc'[c].pc = "done" /\ proc'[c].ret = "ok" /\ c = "c1") =>
                /\ proc'[c].lsCalls = 1
                /\ proc'[c].out = LsRefsResponse(1) \o <<Pkt("pack", 1, "")>>]_vars

\* The repeated session has its answer: one ls-refs call, and the packfile of
\* commit 1 after the upstream's refs.
C11_WarmServed ==
    /\ proc["c1"].round = 2
    /\ proc["c1"].pc = "done"
    /\ proc["c1"].ret = "ok"
    /\ proc["c1"].lsCalls = 1
    /\ proc["c1"].out = LsRefsResponse(1) \o <<Pkt("pack", 1, "")>>

\* The step in which client c's ls-refs command calls the upstream.
CallsUpstream(c) == proc[c].pc = "lsUp" /\ proc'[c].pc # "lsUp"

\* C12: an ls-refs command calls the upstream's ls-refs exactly once and is
\* never answered from the mirror.  When the call succeeds, the chunks kept
\* for the client are the upstream's and they are written to the response
\* unmodified and in order; when it fails, the command fails, only the error
\* packet is written and the request ends without running its other commands.
C12_LsRefsFromUpstream ==
    [][\A c \in Clients :
          /\ proc'[c].lsCalls # proc[c].lsCalls =>
                CallsUpstream(c) /\ proc'[c].lsCalls = proc[c].lsCalls + 1
          /\ CallsUpstream(c) =>
                /\ proc'[c].lsCalls = proc[c].lsCalls + 1
                /\ \/ /\ proc'[c].pc = "lsWrite"
                      /\ proc'[c].resp = LsRefsResponse(upHead)
                      /\ proc'[c].out = proc[c].out
                   \/ /\ proc'[c].pc = "done"
                      /\ proc'[c].ret = "fail"
                      /\ proc'[c].out = Append(proc[c].out, ErrorPacket(proc'[c].err))
                      /\ \A t \in Tasks : t[1] = c => ~Spawned(t)
          /\ proc[c].pc = "lsWrite" /\ proc'[c].pc # "lsWrite" =>
                /\ proc'[c].out = proc[c].out \o proc[c].resp
                /\ proc'[c].lsCalls = 1]_vars

\* The ls-refs of a session was answered with the upstream's branch at commit
\* 2 while the mirror has it at commit 1, and the session goes on.
C12_ForwardedNotMirror ==
    /\ proc["c1"].pc = "fetchCheck"
    /\ proc["c1"].lsCalls = 1
    /\ proc["c1"].out = LsRefsResponse(2)
    /\ mirror[ChildPath].master = 1

\* C13 as stated: while the response of an ls-refs command is not yet written,
\* the fetchUpstream that the command started does not modify the mirror.
C13_ForwardedBeforeFetch ==
    [][\A c \in Clients :
          (proc[c].pc = "lsWrite" /\ mirror' # mirror) =>
              task'[<<c, proc[c].used>>] = task[<<c, proc[c].used>>]]_vars

\* The step in which the wait loop of c's fetch command ends with the
\* completion of its fetchUpstream, the wants still missing.
FetchDoneMiss(c) ==
    /\ proc[c].pc = "wait"
    /\ proc[c].fetchDone # "empty"
    /\ FetchFails(c)
    /\ proc'[c].err # "context canceled"

\* C14 as stated: when the fetchUpstream of a fetch command returned without
\* error and the wants are still missing, the command fails with the code
\* Unavailable, which the reporter records, and an error packet is written to
\* the response.
C14_UnavailableAfterFetch ==
    [][\A c \in Clients :
          (FetchDoneMiss(c) /\ proc[c].fetchDone = "nil") =>
              /\ proc'[c].code = "Unavailable"
              /\ proc'[c].out = Append(proc[c].out, ErrorPacket("Unavailable"))]_vars

\* The step in which the wait loop of c's fetch command ends because the
\* context of the request is cancelled.
Cancels(c) ==
    /\ proc[c].pc = "wait"
    /\ FetchFails(c)
    /\ proc'[c].err = "context canceled"

\* C15 as stated: a fetch command whose context is cancelled in the wait loop
\* fails with the code Canceled, which is the code the reporter records.
C15_CanceledRecorded ==
    [][\A c \in Clients : Cancels(c) => proc'[c].code = "Canceled"]_vars

\* The request of client c ended with the cancellation of its context.
Cancelled(c) == proc[c].pc = "done" /\ proc[c].err = "context canceled"

\* C16: the cancellation of a client's context ends the wait loop of that
\* client's command and nothing else: the fetchUpstream that the command
\* started is left as it is, it still runs to its end, and what it does to the
\* mirror, to lastUpdate and to the lock does not depend on its client.
C16_CancellationIsolated ==
    /\ [][\A c \in Clients : Cancels(c) =>
             /\ task' = task
             /\ mirror' = mirror /\ lastUpdate' = lastUpdate /\ mu' = mu
             /\ \A d \in Clients \ {c} : proc'[d] = proc[d]]_vars
    /\ [][\A t \in Tasks :
             /\ (task[t].pc \in {"p1", "p2"} /\ task'[t].pc # task[t].pc) =>
                   \/ /\ task'[t].err = "nil"
                      /\ mirror'[TaskPath(t)] = Fetched(mirror[TaskPath(t)])
                   \/ /\ task'[t].err # "nil"
                      /\ mirror' = mirror
             /\ Returns(t) =>
                   /\ lastUpdate'[TaskPath(t)] =
                         UpdatedLastUpdate(lastUpdate[TaskPath(t)], task[t].err, task[t].start)
                   /\ mu'[TaskPath(t)].w = Nobody]_vars
    /\ \A c \in Clients : [](Cancelled(c) => <>(task[<<c, 1>>].pc = "done"))

\* Client c1 has cancelled, its fetchUpstream went on and brought commit 1,
\* and c2 is served from the mirror while its own fetchUpstream has not yet
\* taken the lock.
C16_OtherWaiterServed ==
    /\ Cancelled("c1")
    /\ task[<<"c1", 1>>].pc = "done"
    /\ task[<<"c1", 1>>].err = "nil"
    /\ proc["c2"].pc = "serving"
    /\ proc["c2"].served = "complete"
    /\ task[<<"c2", 1>>].pc \in {"open", "lock"}

\* The packets that a step appends to the response of client c.
Appended(c) == SubSeq(proc'[c].out, Len(proc[c].out) + 1, Len(proc'[c].out))

\* The kinds of packets that the handler of a command writes: the chunks of
\* the upstream's answer for ls-refs, the packfile for fetch, and for both the
\* error packet of a failure.
KindsOf(cmd) == IF cmd.name = "ls-refs" THEN {"ref", "flush", "ERR"} ELSE {"pack", "ERR"}

\* C17: the commands of one request run in the order of the body, one at a
\* time: a command starts in the step in which the one before it returns true
\* (or, for the first, in which the repository is opened); every write to the
\* response appends to what the commands before have written and comes from
\* the command that is running; and the step in which a handler fails ends
\* the request, after which nothing is written, no upstream call is made and
\* no fetchUpstream is started for it.
C17_CommandsInOrder ==
    [][\A c \in Clients :
          /\ (proc'[c].used # proc[c].used /\ proc'[c].pc # "done") =>
                /\ proc[c].pc \in {"initRepo", "lsWrite", "serving"}
                /\ proc[c].pc = "serving" => proc[c].served = "complete"
                /\ proc'[c].used = proc[c].used + 1
                /\ proc[c].cmds # <<>>
                /\ proc'[c].cur = Head(proc[c].cmds)
                /\ proc'[c].cmds = Tail(proc[c].cmds)
          /\ Len(proc'[c].out) >= Len(proc[c].out)
          /\ SubSeq(proc'[c].out, 1, Len(proc[c].out)) = proc[c].out
          /\ (Appended(c) # <<>> /\ proc[c].pc # "new") =>
                /\ proc[c].used >= 1
                /\ \A i \in 1..Len(Appended(c)) : Appended(c)[i].kind \in KindsOf(proc[c].cur)
          /\ (\E i \in 1..Len(Appended(c)) : Appended(c)[i].kind = "ERR") =>
                proc'[c].pc = "done" /\ proc'[c].ret = "fail"
          /\ proc'[c].ret = "fail" => proc'[c].pc = "done" /\ proc'[c].cmds = <<>>
          /\ proc[c].pc = "done" =>
                /\ proc'[c] = proc[c]
                /\ \A t \in Tasks : t[1] = c => ~Spawned(t)]_vars

\* The two commands of a session have run: the response holds the upstream's
\* refs and, after them, the packfile of the wanted commit.
C17_SessionAnswered ==
    /\ proc["c1"].pc = "done"
    /\ proc["c1"].ret = "ok"
    /\ proc["c1"].round = 1
    /\ proc["c1"].out = LsRefsResponse(2) \o <<Pkt("pack", 2, "")>>

\* The request of client c is one that ServeHTTP hands to uploadPackHandler.
ReachesUploadPack(c) ==
    /\ proc[c].http.auth = "nil"
    /\ proc[c].http.proto = "version=2"
    /\ proc[c].http.endpoint = "/git-upload-pack"

\* C18 as stated: an error of a /git-upload-pack request is written to the
\* response as an error packet, after what was written before it, and never
\* as an HTTP error with a text body.
C18_ErrorsAsPackets ==
    \A c \in Clients :
        (ReachesUploadPack(c) /\ proc[c].pc = "done" /\ proc[c].err # "nil") =>
            /\ proc[c].out # <<>>
            /\ proc[c].out[Len(proc[c].out)] = ErrorPacket(proc[c].err)
            /\ proc[c].status = 200
            /\ proc[c].ctype = "application/x-git-upload-pack-result"

\* No repository was opened, no upstream was called and no fetchUpstream was
\* started for the request of client c.
NoEffect(c) ==
    /\ proc[c].handle = None
    /\ proc[c].lsCalls = 0
    /\ \A t \in Tasks : t[1] = c => task[t] = IdleTask
    /\ \A p \in Paths : managedRepos[p] # c

\* C19 as stated: a request that the authorizer rejects has no effect, and it
\* is answered with the HTTP status of Unauthenticated and the two
\* WWW-Authenticate headers.
C19_AuthorizedFirst ==
    \A c \in Clients :
        (proc[c].http.auth # "nil" /\ proc[c].pc = "done") =>
            /\ NoEffect(c)
            /\ proc[c].status = HTTPStatusFromCode("Unauthenticated")
            /\ proc[c].wwwAuth = <<"Bearer", "Basic realm=goblet">>

\* Every body that client c may post has a command that is neither ls-refs
\* nor fetch.
PostsUnknown(c) ==
    \A req \in offered[c] : \E i \in 1..Len(req) : req[i].name \notin {"ls-refs", "fetch"}

\* C20: a /git-upload-pack request with an unknown command is rejected with
\* InvalidArgument before any of its commands runs: the request never gets to
\* open the repository, makes no upstream call, starts no fetchUpstream and
\* writes nothing but the error, whatever valid commands stand before the
\* unknown one.
C20_UnknownCommandRejected ==
    \A c \in Clients :
        (ReachesUploadPack(c) /\ PostsUnknown(c)) =>
            /\ proc[c].pc \in {"new", "done"}
            /\ NoEffect(c)
            /\ proc[c].pc = "done" =>
                  /\ proc[c].err = "InvalidArgument"
                  /\ proc[c].code = "InvalidArgument"
                  /\ proc[c].status = HTTPStatusFromCode("InvalidArgument")
                  /\ \A i \in 1..Len(proc[c].out) :
                        proc[c].out[i].kind \notin {"ref", "flush", "pack"}

\* A request with an unknown command and nothing else wrong was rejected
\* while the other client's fetch is served.
C20_RejectedUnknown ==
    /\ PostsUnknown("c1")
    /\ proc["c1"].http = ValidHTTP
    /\ proc["c1"].pc = "done"
    /\ proc["c1"].code = "InvalidArgument"
    /\ proc["c2"].pc = "serving"

\* Client c runs a fetch command whose want line cannot be parsed.
WantsMalformed(c) == proc[c].cur.name = "fetch" /\ proc[c].cur.hash = NoHex

\* C21 as stated: a fetch command with a want line that cannot be parsed
\* fails with InvalidArgument: it starts no fetchUpstream, never enters the
\* wait loop, and nothing is served.
C21_MalformedWantRejected ==
    \A c \in Clients :
        /\ WantsMalformed(c) =>
              /\ proc[c].pc \notin {"wait", "serve", "serving"}
              /\ task[<<c, proc[c].used>>] = IdleTask
        /\ (offered[c] = {<<MalformedFetch>>} /\ proc[c].pc = "done") =>
              /\ proc[c].code = "InvalidArgument"
              /\ \A t \in Tasks : t[1] = c => task[t] = IdleTask

CycleSucceeded ==
    /\ proc[Bk].pc = "idle"
    /\ proc[Bk].stage = "snapshot"
    /\ proc[Bk].ret \in {"ok", "kept"}

\* C23 as stated: after a successful snapshot cycle, every repository that has
\* a bundle in the bucket has exactly one, the newest.
C23_OneBundleAfterCycle ==
    CycleSucceeded =>
        \A p \in Paths : bundle[p] # {} => bundle[p] = {Newest(bundle[p])}

\* The last snapshot cycle is over, however it ended.
CycleEnded ==
    /\ proc[Bk].pc = "idle"
    /\ proc[Bk].stage = "snapshot"
    /\ proc[Bk].ret # "none"

EndsCycle == proc[Bk].pc = "cycle" /\ proc'[Bk].pc = "idle"

EndsRecovery == proc[Bk].stage # "snapshot" /\ proc'[Bk].stage = "snapshot"

\* The bucket holds a manifest that names the repository and a bundle of it
\* whose newest has master at commit h.
Snapshotted(h) ==
    /\ \E m \in manifests : ChildPath \in m.urls
    /\ bundle[ChildPath] # {}
    /\ Newest(bundle[ChildPath]).head = h

\* C25: server B starts with an empty cache on the bucket in which server A
\* left a manifest and a bundle of the repository with commit 1.  B's recovery
\* calls RecoverFromBundle with that bundle, and when its fetch from the
\* bundle succeeds the mirror has master at commit 1 with its objects.  With
\* the upstream unchanged, no request of B then starts a fetchUpstream or
\* waits for one, a request calls the upstream at most once, and the session
\* that asks for commit 1 is answered with the upstream's refs, from its one
\* ls-refs call, and the packfile from the mirror.
C25_RoundTrip ==
    [][proc'[Bk].server = "B" =>
          /\ (EndsRecovery /\ Snapshotted(1)) =>
                /\ Logged("ReadBundle", ChildPath, 1) \in proc'[Bk].log
                /\ Logged("ReadBundle done", ChildPath, 1) \in proc'[Bk].log =>
                      mirror'[ChildPath] = [master |-> 1, objs |-> Anc(1)]
          /\ Logged("ReadBundle done", ChildPath, 1) \in proc[Bk].log =>
                \A c \in Clients :
                   /\ \A t \in Tasks : ~Spawned(t)
                   /\ proc'[c].pc # "wait"
                   /\ proc'[c].lsCalls <= 1
                   /\ (proc'[c].pc = "done" /\ proc'[c].ret = "ok" /\ c = "c1") =>
                         /\ proc'[c].lsCalls = 1
                         /\ proc'[c].out = LsRefsResponse(1) \o <<Pkt("pack", 1, "")>>]_vars

\* Server B has recovered the repository from the bundle and has answered the
\* session that asks for commit 1, and none of its fetchUpstream tasks ran.
C25_ServedAfterRestart ==
    /\ proc[Bk].server = "B"
    /\ Logged("ReadBundle done", ChildPath, 1) \in proc[Bk].log
    /\ proc["c1"].pc = "done"
    /\ proc["c1"].ret = "ok"
    /\ proc["c1"].lsCalls = 1
    /\ proc["c1"].out = LsRefsResponse(1) \o <<Pkt("pack", 1, "")>>
    /\ \A t \in Tasks : task[t] = IdleTask

\* The recovery of the server's start is over.
RecoveryOver == proc[Bk].stage = "snapshot"

\* The URLs of the manifests that recovery read without a logged failure.
ReadableURLs ==
    UNION {m.urls : m \in {r \in manifests : Logged("manifest", "", r.ts) \notin proc[Bk].log}}

\* Recovery logged that it skips URL u: it is not a URL, its bundle was not
\* found or not downloaded, or its repository was not opened.
Skipped(u) ==
    \E e \in proc[Bk].log : e.url = u /\ e.kind \in {"url", "bundle", "open"}

\* RecoverFromBundle was called for URL u with the newest of its bundles.
RecoveredLatest(u) ==
    Logged("ReadBundle", u, Newest(bundle[u]).head) \in proc[Bk].log

C27_Idempotent ==
    [][\A c \in Clients :
          (proc[c].round = 2 /\ proc'[c].round = 3) =>
              proc'[c].err = "nil" /\ proc'[c].url = proc[c].url]_vars

\* Every body that client c may post has no command.
PostsEmpty(c) == offered[c] = {<<>>}

\* No command handler runs or ran for the request of client c, which called
\* no upstream and started no fetchUpstream.
NoCommand(c) ==
    /\ proc[c].pc \in {"new", "getRepo", "unlockNew", "lockRepo", "initRepo", "done"}
    /\ proc[c].used = 0
    /\ proc[c].ret \in {"none", "fail"}
    /\ proc[c].lsCalls = 0
    /\ \A t \in Tasks : t[1] = c => task[t] = IdleTask

\* The request of client c is over without an error reported and with an
\* empty body in its response.
AcceptedEmpty(c) ==
    /\ proc[c].err = "nil"
    /\ proc[c].code = "none"
    /\ proc[c].status = 200
    /\ proc[c].out = <<>>

\* C28 as stated: a /git-upload-pack request without commands, authorized
\* and with Git-Protocol version=2, runs no command handler, calls no
\* upstream and ends without a reported error and with an empty response
\* body.
C28_EmptyBodyAccepted ==
    \A c \in Clients :
        (ReachesUploadPack(c) /\ PostsEmpty(c)) =>
            /\ NoCommand(c)
            /\ proc[c].pc = "done" => AcceptedEmpty(c)

\* The body of the request of client c can be read and the canonicalizer
\* accepts its URL.
Openable(c) ==
    /\ proc[c].http.gzip # "bad"
    /\ CanonicalizeURL(RequestURL(proc[c])).err = "nil"

\* C28 amended: the same for a request whose body can be read and whose URL
\* the canonicalizer accepts, and the repository of the request is opened;
\* the other requests without commands are rejected with InvalidArgument and
\* open no repository.
C28_EmptyBodyOfOpenable ==
    \A c \in Clients :
        (ReachesUploadPack(c) /\ PostsEmpty(c)) =>
            /\ NoCommand(c)
            /\ proc[c].pc = "done" =>
                  IF Openable(c)
                  THEN AcceptedEmpty(c) /\ proc[c].handle # None
                  ELSE proc[c].err = "InvalidArgument" /\ NoEffect(c)

\* A request without commands has its answer: 200 OK, the Content-Type of the
\* result and no body, its repository opened and initialized.
C28_EmptyAnswered ==
    /\ ReachesUploadPack("c1") /\ PostsEmpty("c1") /\ Openable("c1")
    /\ proc["c1"].pc = "done"
    /\ AcceptedEmpty("c1")
    /\ proc["c1"].ctype = "application/x-git-upload-pack-result"
    /\ proc["c1"].handle # None
    /\ dirExists[ChildPath]

\* The fetchUpstream goroutine of the command that client c is at.
TaskOf(c) == <<c, proc[c].used>>

\* C29: the step of a fetch command that makes the first hasAllWants check
\* starts the command's fetchUpstream, and enters the wait loop, exactly when
\* the check finds a want missing; when it finds them all the command goes on
\* to serve from the mirror.  No other step of the command starts a
\* fetchUpstream, neither in the wait loop nor while it serves, and none of
\* them calls the upstream.
C29_FetchOnMiss ==
    [][\A c \in Clients :
          /\ (proc[c].pc = "fetchCheck" /\ proc'[c] # proc[c]) =>
                IF HasAllWants(proc[c].path, ParseFetchWants(proc[c].cur).wants)
                THEN proc'[c].pc = "serve" /\ task' = task
                ELSE /\ proc'[c].pc = "wait"
                     /\ Spawned(TaskOf(c))
                     /\ task'[TaskOf(c)].kind = "fg"
                     /\ \A t \in Tasks \ {TaskOf(c)} : task'[t] = task[t]
          /\ proc[c].pc \in {"wait", "serve", "serving"} =>
                /\ \A t \in Tasks : t[1] = c => ~Spawned(t)
                /\ proc'[c].lsCalls = proc[c].lsCalls
          /\ proc[c].pc = "fetchCheck" => proc'[c].lsCalls = proc[c].lsCalls
          /\ (proc[c].pc \in {"serve", "serving"} /\ task[TaskOf(c)] = IdleTask) =>
                task'[TaskOf(c)] = IdleTask]_vars

\* One fetch command is served after the one fetchUpstream that it started
\* has ended, the other is served without having started any.
C29_MissAndHit ==
    /\ proc["c1"].pc = "serving"
    /\ proc["c1"].cur.name = "fetch"
    /\ task[TaskOf("c1")].pc = "done"
    /\ task[TaskOf("c1")].err = "nil"
    /\ proc["c2"].pc = "serving"
    /\ proc["c2"].cur.name = "fetch"
    /\ \A t \in Tasks : t[1] = "c2" => task[t] = IdleTask

\* Some ref of chunks, the upstream's answer to ls-refs, does not exist in
\* the mirror at path p or resolves there to another hash.
NewOrChanged(p, chunks) ==
    \E i \in 1..Len(chunks) :
        /\ chunks[i].kind = "ref"
        /\ mirror[p].master = 0 \/ mirror[p].master # chunks[i].hash

\* C30: the step of an ls-refs command in which the upstream answers starts
\* the command's fetchUpstream in the background exactly when some ref of the
\* answer is new to the mirror or resolves there to another hash, and starts
\* no other; an answer without refs starts none, whatever refs the mirror
\* has.  A call that fails starts none, and no other step starts a
\* fetchUpstream in the background.
C30_BackgroundFetchOnUpdate ==
    [][/\ \A c \in Clients : CallsUpstream(c) =>
             /\ \A t \in Tasks \ {TaskOf(c)} : task'[t] = task[t]
             /\ IF proc'[c].pc = "lsWrite"
                THEN /\ Spawned(TaskOf(c)) <=> NewOrChanged(proc[c].path, proc'[c].resp)
                     /\ Spawned(TaskOf(c)) => task'[TaskOf(c)].kind = "bg"
                     /\ ~Spawned(TaskOf(c)) => task'[TaskOf(c)] = task[TaskOf(c)]
                ELSE task' = task
       /\ \A t \in Tasks : (Spawned(t) /\ task'[t].kind = "bg") => CallsUpstream(t[1])]_vars

\* The session has its answer.  Its first ls-refs was answered with the
\* upstream's branch and started a fetchUpstream; its second was answered
\* without any ref, and started none although the mirror has a branch.
C30_LocalOnlyRef ==
    /\ proc["c1"].pc = "done"
    /\ proc["c1"].ret = "ok"
    /\ proc["c1"].out = LsRefsResponse(1) \o <<Pkt("flush", 0, "")>>
    /\ task[<<"c1", 1>>].pc = "done"
    /\ task[<<"c1", 2>>] = IdleTask
    /\ mirror[ChildPath].master = 1

\* The wants of the fetch command that client c waits for are in the mirror.
WantsArrived(c) ==
    /\ proc[c].pc = "wait"
    /\ HasAllWants(proc[c].path, ParseFetchWants(proc[c].cur).wants)

\* C31: a fetch command in the wait loop whose wants are in the mirror can
\* leave the loop by the timer case and go on to serveFetchLocal, whoever
\* holds the lock of the repository; the step that leaves the loop takes no
\* lock and touches no fetchUpstream.
C31_EarlyExit ==
    [][\A c \in Clients :
          /\ WantsArrived(c) => ENABLED (WaitTick(c) /\ proc'[c].pc = "serve")
          /\ (proc[c].pc = "wait" /\ proc'[c].pc = "serve") =>
                mu' = mu /\ task' = task /\ WantsArrived(c)]_vars

\* The handler of a fetch command serves from the mirror, its fetchDone
\* channel still empty, while the fetchUpstream that it started holds the
\* lock before the second phase of its fetch and another waits for the lock.
C31_ServingWhileLocked ==
    /\ proc["c1"].pc = "serving"
    /\ proc["c1"].fetchDone = "empty"
    /\ task[TaskOf("c1")].pc = "p2"
    /\ mu[ChildPath].w = TaskOf("c1")
    /\ task[<<"c2", 1>>].pc = "lock"

\* C32 as stated: the fetchUpstream that gets the lock runs the fetch in two
\* phases exactly when the mirror that it has locked has no HEAD.
C32_SplitDecidedUnderLock ==
    [][\A t \in Tasks :
          (task[t].pc = "lock" /\ task'[t].pc \in {"p1", "p2"}) =>
              (task'[t].pc = "p1" <=> ~HasHEAD(TaskPath(t)))]_vars

\* Client c is inside handleV2Command.
InHandler(c) == proc[c].pc \in {"lsUp", "lsWrite", "fetchCheck", "wait", "serve", "serving"}

\* The step in which the handleV2Command of client c returns: the request
\* ends, or its loop goes on to the next command.
HandlerReturns(c) ==
    /\ InHandler(c)
    /\ proc'[c].pc = "done" \/ proc'[c].used # proc[c].used

\* C33: handleV2Command calls the reporter once, in the step in which it
\* returns, and in no other step.  When it returns true, and the request goes
\* on or ends with success, it has reported nil and has written no error
\* packet; when it returns false, and the request ends, it has reported its
\* error.
C33_ReportedOnce ==
    [][\A c \in Clients :
          /\ HandlerReturns(c) =>
                /\ proc'[c].reports = proc[c].reports + 1
                /\ IF proc'[c].pc = "done" /\ proc'[c].ret = "fail"
                   THEN /\ proc'[c].code = StatusCode(proc'[c].err)
                        /\ proc'[c].err # "nil" =>
                              proc'[c].out[Len(proc'[c].out)] = ErrorPacket(proc'[c].err)
                   ELSE /\ proc'[c].code = StatusCode("nil")
                        /\ \A i \in 1..Len(proc'[c].out) : proc'[c].out[i].kind # "ERR"
          /\ ~HandlerReturns(c) => proc'[c].reports = proc[c].reports
          /\ InHandler(c) => proc[c].reports = proc[c].used - 1]_vars

\* A session of two commands has ended with success and two calls of the
\* reporter; the request of the other client has ended with the one call of
\* its command's failure.
C33_TwoReports ==
    /\ proc["c1"].pc = "done"
    /\ proc["c1"].ret = "ok"
    /\ proc["c1"].reports = 2
    /\ proc["c2"].pc = "done"
    /\ proc["c2"].ret = "fail"
    /\ proc["c2"].reports = 1

\* The step in which backupManagedRepo commits a bundle of the repository at
\* path p.
WritesBundle(p) ==
    /\ proc[Bk].pc = "writeBundle"
    /\ proc[Bk].path = p
    /\ p \in proc'[Bk].urls

\* C34 as stated: in a snapshot cycle the bundle of a repository is written
\* exactly when the first reading of its lastUpdate is newer than its latest
\* bundle, and the bundle that is written is named by a lastUpdate that is
\* newer than the latest bundle; when the latest bundle is at least as new,
\* nothing is written.
C34_WrittenWhenOlder ==
    [][\A p \in Paths :
          /\ (proc[Bk].pc = "read1" /\ proc[Bk].path = p /\ proc'[Bk].pc # "read1") =>
                (proc'[Bk].pc = "rlock2" <=> LatestBundle(bundle[p]).ts < lastUpdate[p])
          /\ bundle'[p] \ bundle[p] # {} => WritesBundle(p)
          /\ WritesBundle(p) =>
                /\ [ts |-> proc[Bk].tmp, head |-> mirror[p].master] \in bundle'[p]
                /\ LatestBundle(bundle[p]).ts < proc[Bk].tmp]_vars

\* The objects of a prefix whose name is the numeral of a time.
Numbered(bs) == {o \in bs : ~ParseInt(o.ts).err}

\* The step in which gcBundle runs on the prefix of the repository at path p.
RunsGcBundle(p) ==
    \/ proc[Bk].pc = "idle" /\ proc[Bk].stage = "recover" /\ p \in proc[Bk].todo \ proc'[Bk].todo
    \/ proc[Bk].pc = "cycle" /\ p \in proc[Bk].todo \ proc'[Bk].todo

\* C35 as stated: an object whose name is no integer is never deleted, and
\* gcBundle finds the latest of the objects whose name is one: it leaves that
\* object under the prefix, and recovery downloads it when there is one.
C35_NonBundlesIgnored ==
    [][\A p \in Paths :
          /\ \A o \in bundle[p] \ Numbered(bundle[p]) : o \in bundle'[p]
          /\ (RunsGcBundle(p) /\ Numbered(bundle[p]) # {}) =>
                /\ Newest(Numbered(bundle[p])) \in bundle'[p]
                /\ proc[Bk].stage = "recover" =>
                      /\ proc'[Bk].pc = "getRepo"
                      /\ proc'[Bk].tmp = Newest(Numbered(bundle[p])).head]_vars

\* The positions of the backup process inside a snapshot cycle, and inside
\* the recovery of one repository, from the download of its bundle to
\* <cache-root>/tmp-bundle to the end of RecoverFromBundle, which reads it.
InCycle == proc[Bk].stage = "snapshot" /\ proc[Bk].pc # "idle"
UsesTmpBundle == proc[Bk].stage = "recover" /\ proc[Bk].pc \notin {"new", "idle"}

\* The URLs that recoverFromBackup has dealt with, each by a line of its
\* log or by the operation ReadBundle.
HandledURLs == {l.url : l \in proc[Bk].log}

\* C36: the backup process is one serialized task.  The first snapshot cycle
\* starts when recovery has read the repository list and has dealt with each
\* of its URLs; a cycle starts only when no cycle and no recovery is running;
\* and while one recovery uses <cache-root>/tmp-bundle no other download
\* writes the file and no cycle runs, until RecoverFromBundle has ended.
C36_SerializedBackup ==
    [][/\ (~InCycle /\ InCycle') =>
            /\ proc[Bk].stage = "snapshot" /\ proc[Bk].pc = "idle"
            /\ proc[Bk].round = 1 => ReadableURLs \subseteq HandledURLs
            /\ \A p \in Paths : mu[p].w # Goroutine(Bk) /\ Goroutine(Bk) \notin mu[p].r
       /\ InCycle => (InCycle' \/ (proc'[Bk].pc = "idle" /\ proc'[Bk].round = proc[Bk].round + 1))
       /\ UsesTmpBundle =>
            /\ proc'[Bk].stage = "recover"
            /\ \/ UsesTmpBundle' /\ proc'[Bk].tmp = proc[Bk].tmp /\ proc'[Bk].path = proc[Bk].path
               \/ proc[Bk].pc = "recovering" /\ proc'[Bk].pc = "idle"]_vars

\* A process that has recovered a repository from its bundle and has then
\* run two snapshot cycles.
C36_RecoveredThenTwoCycles ==
    /\ proc[Bk].round > 2
    /\ \E l \in proc[Bk].log : l.kind = "ReadBundle done"

\* The goroutine of task t is inside fetchUpstream, or about to send what
\* fetchUpstream returned.
Running(t) == task[t].pc \notin {"idle", "done"}

\* C37: under the fairness of the scheduler and of the lock, and with git
\* subprocesses that end, the wait loop of every fetch command ends and its
\* handler returns, whether the client cancels or not; the goroutine of every
\* fetchUpstream runs to its end; and the send of its error is never blocked,
\* whatever the handler does or has done.
C37_WaitLoopEnds ==
    /\ \A c \in Clients : (proc[c].pc = "wait") ~> (proc[c].pc = "done")
    /\ \A t \in Tasks : Running(t) ~> (task[t].pc = "done")
    /\ [][\A t \in Tasks : task[t].pc = "finish" => ENABLED FetchFinish(t)]_vars

\* The fetchUpstream of c1's command is about to send its error when c1 has
\* cancelled and its handler has returned.
C37_SendAfterReturn ==
    /\ Cancelled("c1")
    /\ task[<<"c1", 1>>].pc = "finish"

\* The goroutines that wait for the lock of the repository at path p: in
\* openManagedRepository, fetchUpstream, RecoverFromBundle or LastUpdateTime.
Waiting(p) ==
    {Goroutine(o) : o \in {x \in Openers : /\ proc[x].path = p
                                           /\ proc[x].pc \in {"lockRepo", "recoverLock",
                                                               "rlock1", "rlock2"}}}
    \cup {t \in Tasks : TaskPath(t) = p /\ task[t].pc = "lock"}

\* The goroutines between the Lock or RLock and the Unlock of the lock of
\* the repository at path p; that of getManagedRepo holds the lock of the
\* candidate it has published.
Holding(p) ==
    {Goroutine(o) : o \in {x \in Openers : /\ proc[x].path = p
                                           /\ proc[x].pc \in {"unlockNew", "initRepo",
                                                               "recovering", "read1", "read2"}}}
    \cup {t \in Tasks : TaskPath(t) = p /\ task[t].pc \in {"p1", "p2", "finish"}}

\* The next step of a goroutine that holds the lock of the repository at
\* path p, and the step in which a goroutine that waits for it gets it.
HolderStep(p) ==
    \/ \E o \in Openers : proc[o].path = p /\ (GetManagedRepoUnlock(o) \/ OpenInit(o))
    \/ proc[Bk].path = p /\ (RecoverFetch \/ LastUpdateTimeReturn)
    \/ \E t \in Tasks : TaskPath(t) = p /\ (GitFetch(t) \/ FetchFinish(t))
WaiterStep(p) ==
    \/ \E o \in Openers : proc[o].path = p /\ OpenLock(o)
    \/ proc[Bk].path = p /\ (RecoverLock \/ LastUpdateTimeRLock)
    \/ \E t \in Tasks : TaskPath(t) = p /\ FetchLock(t)

\* The order of the positions of fetchUpstream under the lock.
LockedOrder == {<<"p1", "p2">>, <<"p1", "finish">>, <<"p2", "finish">>, <<"finish", "done">>}

\* C38: the lock protocol is free of deadlock.  A lock that is held, that of
\* a published candidate included, is held by a goroutine that is on its way
\* to the Unlock and whose next step is never blocked: it waits for no other
\* lock.  Each of its steps brings it nearer to the Unlock, which comes after
\* at most three of them.  When the lock is free and goroutines wait for it,
\* one of them can take it.
C38_NoDeadlock ==
    /\ [](\A p \in Paths :
            /\ mu[p].w # Nobody => mu[p].w \in Holding(p) /\ mu[p].r = {}
            /\ \A r \in mu[p].r : Goroutine(r) \in Holding(p)
            /\ Cardinality(Holding(p)) <= 1
            /\ mu[p] # Unlocked => ENABLED HolderStep(p)
            /\ (mu[p] = Unlocked /\ Waiting(p) # {}) => ENABLED WaiterStep(p))
    /\ [][/\ \A t \in Tasks :
               (task[t].pc \in {"p1", "p2", "finish"} /\ task'[t] # task[t]) =>
                   /\ <<task[t].pc, task'[t].pc>> \in LockedOrder
                   /\ task'[t].pc = "done" => mu'[TaskPath(t)].w # t
          /\ \A o \in Openers :
               (Goroutine(o) \in Holding(proc[o].path) /\ proc'[o] # proc[o]) =>
                   /\ mu'[proc[o].path].w # Goroutine(o)
                   /\ o \notin mu'[proc[o].path].r]_vars

\* A client waits for the lock of a handle that recovery has published and
\* whose candidate lock it has not yet released, while the other client's
\* fetchUpstream holds the lock of the other repository.
C38_WaitsForCandidateLock ==
    /\ proc[Bk].pc = "unlockNew"
    /\ \E c \in Clients : proc[c].pc = "lockRepo" /\ proc[c].path = proc[Bk].path
    /\ \E t \in Tasks : task[t].pc \in {"p1", "p2"} /\ TaskPath(t) # proc[Bk].path

\* The step in which openManagedRepository returns the handle to o.
OpenReturns(o) == proc[o].pc = "initRepo" /\ proc'[o].pc # "initRepo"

\* C39 as stated: when openManagedRepository returns a handle, git init
\* --bare, the configuration and remote add have run on the handle's local
\* path, in whatever order the paths are opened.
C39_InitializedWhenReturned ==
    [][\A o \in Openers : OpenReturns(o) => initCount'[proc[o].path] >= 1]_vars

\* The backup process is in the pause before a snapshot cycle, and no
\* fetchUpstream but that of task t is still to return: what the cycle will
\* find for the repository of t is what t leaves.
OnlyFetchBeforeCycle(t) ==
    /\ proc[Bk].stage = "snapshot" /\ proc[Bk].pc = "idle" /\ proc[Bk].round <= MaxCycles
    /\ \A c \in Clients : proc[c].pc \notin {"new", "getRepo", "unlockNew", "lockRepo",
                                               "initRepo", "fetchCheck"}
    /\ \A u \in Tasks \ {t} : ~Running(u)

\* C40 as stated: a fetchUpstream that returns without error when the
\* repository has a bundle has completed after the latest bundle was written,
\* so the next snapshot cycle finds that bundle out of date and writes a new
\* one.  The formula states it for a fetchUpstream after which nothing is left
\* that changes lastUpdate or the bundles before the cycle looks at them.
C40_FreshAfterFetch ==
    [][\A t \in Tasks :
          (/\ Returns(t) /\ task[t].err = "nil"
           /\ OnlyFetchBeforeCycle(t)
           /\ Bundles(bundle[TaskPath(t)]) # {}) =>
              ~UpToDate(LatestBundle(bundle[TaskPath(t)]).ts, lastUpdate'[TaskPath(t)])]_vars

====
